---- MODULE Spec2Model ----
(***************************************************************************)
(* A model of the day-by-day project simulation of team-work:              *)
(*   - twork/agent/simulation_engine.py   (batch and streaming engine)     *)
(*   - twork/agent/simulation_metadata.py (metadata overlay)               *)
(*   - twork/agent/environment_agent.py   (environment event injector)     *)
(*   - twork/agent/daily_summary.py       (daily summary)                  *)
(*   - backend/app/services/simulation_service.py, backend/app/api/        *)
(*     simulation.py (the SSE pipeline around simulate_stream)             *)
(*   - twork-core/simulation/engine.py    (the pausable async driver)      *)
(*   - backend/app/routers/simulation.py  (the /start /pause /resume       *)
(*     routes)                                                             *)
(***************************************************************************)
EXTENDS Integers, Sequences, FiniteSets, TLC

\* ------------------------------------------------------------------ bounds
\* The largest total_days a run is given.
MaxDays == 3
\* The grain of the draws of random.uniform: u / UniformSteps for u in
\* 0 .. UniformSteps.
UniformSteps == 40
\* The longest list of task results, and of discussions, in a day outcome
\* given to the log normalizer alone.
MaxItems == 2
\* The longest list of log entries given to the summary agent alone.
MaxLogs == 4
\* The most calls a caller makes on one SimulationEngine.
MaxCalls == 2

\* ------------------------------------------------------- names and values
TaskIds == {"A", "B", "C"}
\* The order in which the caller passes the tasks.
InputOrder == <<"A", "B", "C">>
\* A task id that no task of the run carries.
Ghost == "X"
\* Stands for a task result that has no "task_id" key.
NoKey == "<no task_id>"
\* notes of the default result of _simulate_agent_day (the source's text
\* reads "simulation failed" in Chinese).
FailedNotes == "simulation failed"

Range(s) == {s[i] : i \in DOMAIN s}

\* x in list
InList(x, s) == \E i \in DOMAIN s : s[i] = x

\* [x for x in s if Keep(x)] over a sequence
RECURSIVE FilterSeq(_, _)
FilterSeq(s, keep) ==
    IF s = <<>> THEN <<>>
    ELSE IF Head(s) \in keep THEN <<Head(s)>> \o FilterSeq(Tail(s), keep)
    ELSE FilterSeq(Tail(s), keep)

VARIABLES
    \* ---- the inputs of one engine call
    entry,                 \* which entry point drives the run
    total_days,
    enable_env_agent,
    env_event_probability, \* in tenths: 0 .. 10
    in_tasks,              \* the task list the caller passes
    in_agents,             \* the worker list the caller passes
    metadata,              \* the SimulationMetadata overlay
    llm,                   \* the stubbed work-generation capability
    \* ---- the locals and fields of SimulationEngine
    pc,
    tasks,
    agents,
    task_status,
    sorted_tasks,
    day,
    available_tasks,
    agent_i,
    day_log,
    simulation_logs,
    detailed_logs,
    day_logs,
    env_events,
    day_env_events,
    event_history,
    daily_summaries,
    stream,                \* the units simulate_stream has yielded
    sse,                   \* the units the SSE consumer has received
    error,
    \* ---- history kept for the properties
    handed,                \* per capability call: <<day, agent_id, task ids>>
    eligible_log,          \* per processed day: <<day, eligible task ids>>
    \* ---- the twork-core driver and the routes
    d_pc,
    d_status,
    d_day,
    d_current_day,
    d_daily_results,
    d_error_message,
    d_total_days,
    d_graph_tasks,
    d_enable_env,
    d_fail_day,
    d_paused_in,
    r_status,
    \* ---- the caller of the engine and Python's random module
    rng,                   \* the generator behind random.random()
    prior,                 \* the result of the caller's earlier call
    calls                  \* the calls made on this SimulationEngine

engine_vars == <<entry, total_days, enable_env_agent, env_event_probability,
                 in_tasks, in_agents, metadata, llm, pc, tasks, agents,
                 task_status, sorted_tasks, day, available_tasks, agent_i,
                 day_log, simulation_logs, detailed_logs, day_logs, env_events,
                 day_env_events, event_history, daily_summaries, stream, sse,
                 error, handed, eligible_log>>

driver_vars == <<d_pc, d_status, d_day, d_current_day, d_daily_results,
                 d_error_message, d_total_days, d_graph_tasks, d_enable_env,
                 d_fail_day, d_paused_in, r_status>>

caller_vars == <<rng, prior, calls>>

vars == <<engine_vars, driver_vars, caller_vars>>

\* ------------------------------------------------ simulation_metadata.py
\* A metadata record with nothing in it.
EmptyMetadata ==
    [removed_agents |-> {}, removed_tasks |-> {}, modified_agents |-> <<>>,
     modified_tasks |-> <<>>, manual_assignments |-> <<>>,
     completed_tasks |-> {}]

\* dict.update(changes): the keys of changes overwrite or extend d.
DictUpdate(d, changes) ==
    [k \in (DOMAIN d) \cup (DOMAIN changes) |->
        IF k \in DOMAIN changes THEN changes[k] ELSE d[k]]

\* get_agent_modifications / get_task_modifications: the changes of the first
\* record with that id; None is modelled by the empty dict, which the callers
\* treat alike ("if modifications:").
GetModifications(mods, id) ==
    IF \E i \in DOMAIN mods : mods[i].id = id
    THEN mods[CHOOSE i \in DOMAIN mods :
                 /\ mods[i].id = id
                 /\ \A j \in DOMAIN mods : mods[j].id = id => i <= j].changes
    ELSE <<>>

RECURSIVE MapAgents(_, _)
MapAgents(as, md) ==
    IF as = <<>> THEN <<>>
    ELSE LET a == Head(as)
             m == GetModifications(md.modified_agents, a.agent_id)
         IN  <<IF DOMAIN m # {} THEN DictUpdate(a, m) ELSE a>>
             \o MapAgents(Tail(as), md)

RECURSIVE SelectNotRemoved(_, _, _)
SelectNotRemoved(s, key, removed) ==
    IF s = <<>> THEN <<>>
    ELSE IF Head(s)[key] \in removed
         THEN SelectNotRemoved(Tail(s), key, removed)
         ELSE <<Head(s)>> \o SelectNotRemoved(Tail(s), key, removed)

apply_metadata_to_agents(as, md) ==
    MapAgents(SelectNotRemoved(as, "agent_id", md.removed_agents), md)

RECURSIVE MapTasks(_, _)
MapTasks(ts, md) ==
    IF ts = <<>> THEN <<>>
    ELSE LET t  == Head(ts)
             m  == GetModifications(md.modified_tasks, t.task_id)
             t1 == IF DOMAIN m # {} THEN DictUpdate(t, m) ELSE t
             t2 == IF t.task_id \in md.completed_tasks
                   THEN DictUpdate(t1, [status |-> "completed"])
                   ELSE t1
         IN  <<t2>> \o MapTasks(Tail(ts), md)

\* A variant that writes a status into every task.
apply_metadata_to_tasksStatusAlways(ts, md) ==
    LET kept == SelectNotRemoved(ts, "task_id", md.removed_tasks)
    IN  [i \in DOMAIN kept |->
            DictUpdate(kept[i],
                       [status |-> IF kept[i].task_id \in md.completed_tasks
                                   THEN "completed" ELSE "pending"])]

apply_metadata_to_tasks(ts, md) ==
    MapTasks(SelectNotRemoved(ts, "task_id", md.removed_tasks), md)

\* One pass of the inner loop of apply_manual_assignments: the first agent
\* whose id is agent_id gets task_id appended unless it already has it.
RECURSIVE AssignTo(_, _, _)
AssignTo(as, task_id, agent_id) ==
    IF as = <<>> THEN <<>>
    ELSE IF Head(as).agent_id = agent_id
         THEN <<IF InList(task_id, Head(as).assigned_tasks)
                THEN Head(as)
                ELSE [Head(as) EXCEPT
                         !.assigned_tasks = Append(@, task_id)]>> \o Tail(as)
         ELSE <<Head(as)>> \o AssignTo(Tail(as), task_id, agent_id)

RECURSIVE ApplyPairs(_, _)
ApplyPairs(as, pairs) ==
    IF pairs = <<>> THEN as
    ELSE ApplyPairs(AssignTo(as, Head(pairs)[1], Head(pairs)[2]), Tail(pairs))

\* A variant that keeps the assignments the workers came with.
apply_manual_assignmentsKeepOld(as, md) ==
    ApplyPairs(as, md.manual_assignments)

\* manual_assignments is a dict; it is modelled by its items in insertion
\* order, <<task_id, agent_id>>.
apply_manual_assignments(as, md) ==
    IF md.manual_assignments = <<>> THEN as
    ELSE ApplyPairs([i \in DOMAIN as |->
                        [as[i] EXCEPT !.assigned_tasks = <<>>]],
                    md.manual_assignments)

\* ---------------------------------------------------- simulation_engine.py
\* task_dict = {t["task_id"]: t for t in tasks}: the last task with an id wins.
TaskDict(ts) ==
    [id \in {ts[i].task_id : i \in DOMAIN ts} |->
        ts[CHOOSE i \in DOMAIN ts :
              /\ ts[i].task_id = id
              /\ \A j \in DOMAIN ts : ts[j].task_id = id => j <= i]]

\* visit(task_id) of _topological_sort; st = [visited, sorted].  The source
\* recursion has no cycle guard, so this is defined for acyclic inputs only.
RECURSIVE Visit(_, _, _)
RECURSIVE VisitDeps(_, _, _)
Visit(task_id, st, td) ==
    IF task_id \in st.visited THEN st
    ELSE IF task_id \notin DOMAIN td THEN st
    ELSE LET st1 == VisitDeps(td[task_id].dependencies, st, td)
         IN  [visited |-> st1.visited \cup {task_id},
              sorted  |-> Append(st1.sorted, td[task_id])]
VisitDeps(deps, st, td) ==
    IF deps = <<>> THEN st
    ELSE VisitDeps(Tail(deps), Visit(Head(deps), st, td), td)

RECURSIVE VisitAll(_, _, _)
VisitAll(ts, st, td) ==
    IF ts = <<>> THEN st
    ELSE VisitAll(Tail(ts), Visit(Head(ts).task_id, st, td), td)

_topological_sort(ts) ==
    VisitAll(ts, [visited |-> {}, sorted |-> <<>>], TaskDict(ts)).sorted

\* Task a depends on task b through at most n dependency edges of the tasks
\* ts.
RECURSIVE DepPath(_, _, _, _)
DepPath(a, b, ts, n) ==
    /\ n > 0
    /\ \E i \in DOMAIN ts :
          /\ ts[i].task_id = a
          /\ \/ InList(b, ts[i].dependencies)
             \/ \E j \in DOMAIN ts[i].dependencies :
                   DepPath(ts[i].dependencies[j], b, ts, n - 1)

\* visit marks a task visited only after it has visited the task's
\* dependencies: when a task depends on itself through tasks of the task set,
\* visit calls itself on that task again and again until the interpreter
\* raises RecursionError.
Cyclic(ts) ==
    \E i \in DOMAIN ts : DepPath(ts[i].task_id, ts[i].task_id, ts, Len(ts))

\* A variant that lets a dependency id outside the task set pass.
DepCompletedOrUnknown(dep, ts_status) ==
    \/ dep \notin DOMAIN ts_status
    \/ ts_status[dep].status = "completed"

\* task_status.get(dep, {}).get("status") == "completed"
DepCompleted(dep, ts_status) ==
    /\ dep \in DOMAIN ts_status
    /\ ts_status[dep].status = "completed"

AllDepsCompleted(t, ts_status) ==
    \A i \in DOMAIN t.dependencies : DepCompleted(t.dependencies[i], ts_status)

\* A variant that returns the first available task only.
RECURSIVE _get_available_tasksFirstOnly(_, _)
_get_available_tasksFirstOnly(ts, ts_status) ==
    IF ts = <<>> THEN <<>>
    ELSE LET t == Head(ts)
         IN  IF ts_status[t.task_id].status # "completed"
                /\ AllDepsCompleted(t, ts_status)
             THEN <<t>>
             ELSE _get_available_tasksFirstOnly(Tail(ts), ts_status)

RECURSIVE _get_available_tasks(_, _)
_get_available_tasks(ts, ts_status) ==
    IF ts = <<>> THEN <<>>
    ELSE LET t == Head(ts)
             rest == _get_available_tasks(Tail(ts), ts_status)
         IN  IF ts_status[t.task_id].status = "completed" THEN rest
             ELSE IF AllDepsCompleted(t, ts_status) THEN <<t>> \o rest
             ELSE rest

\* task_status = {task["task_id"]: {"status": "pending", "progress": 0} ...}
InitialTaskStatus(ts) ==
    [id \in {ts[i].task_id : i \in DOMAIN ts} |->
        [status |-> "pending", progress |-> 0]]

\* A variant that recomputes the available tasks for every worker.
AgentTasksRecomputed(avail, agent) ==
    LET fresh == _get_available_tasks(sorted_tasks, task_status)
    IN  FilterSeq(fresh, {t \in Range(fresh) :
                             InList(t.task_id, agent.assigned_tasks)})

\* agent_tasks = [t for t in available_tasks if t["task_id"] in
\*                agent["assigned_tasks"]]
AgentTasks(avail, agent) ==
    FilterSeq(avail, {t \in Range(avail) :
                         InList(t.task_id, agent.assigned_tasks)})

TaskIdsOf(ts) == [i \in DOMAIN ts |-> ts[i].task_id]

\* The stubbed LLM: what chat_completion returns for one worker's day, by the
\* behaviour the run's stub has for that worker.
\*   complete    every task handed is reported completed
\*   progress    every task handed is reported in_progress
\*   raise       chat_completion raises
\*   unparsable  the content is not JSON
\*   no_task_id  a task result without "task_id"
\*   unknown_id  a task result whose task_id no task of the run has
\*   null_list   "completed_tasks": null
\*   reversed    every task handed is reported completed, the results listed
\*               in the reverse of the order the tasks were handed in
\*   foreign     one result, which reports the task ForeignId of the run as
\*               completed whatever tasks were handed
Behaviours ==
    {"complete", "progress", "raise", "unparsable",
     "no_task_id", "unknown_id", "null_list", "reversed", "foreign"}

\* The task of the run a "foreign" result names.
ForeignId == "C"

Reverse(q) == [i \in DOMAIN q |-> q[Len(q) + 1 - i]]

TaskResult(id, st, pr) ==
    [task_id |-> id, status |-> st, progress_percentage |-> pr]

\* One element of "discussions" in the capability's output.
Discussion(with_role) == [with_role |-> with_role, time |-> "12:00"]

ChatCompletion(beh, ts) ==
    LET items ==
            CASE beh = "complete" ->
                   [i \in DOMAIN ts |-> TaskResult(ts[i].task_id, "completed", 100)]
              [] beh = "progress" ->
                   [i \in DOMAIN ts |-> TaskResult(ts[i].task_id, "in_progress", 50)]
              [] beh = "reversed" ->
                   Reverse([i \in DOMAIN ts |->
                               TaskResult(ts[i].task_id, "completed", 100)])
              [] beh = "no_task_id" -> <<TaskResult(NoKey, "completed", 100)>>
              [] beh = "unknown_id" -> <<TaskResult(Ghost, "completed", 100)>>
              [] beh = "foreign" -> <<TaskResult(ForeignId, "completed", 100)>>
              [] OTHER -> <<>>
    IN  [raises  |-> beh = "raise",
         parses  |-> beh # "unparsable",
         completed_tasks |-> [isnull |-> beh = "null_list", items |-> items],
         discussions |-> IF beh = "complete" THEN <<Discussion("PM")>>
                                             ELSE <<>>,
         notes |-> "ok"]

\* _simulate_agent_day: the parsed result with the worker's metadata, or, on
\* any exception inside the try block, the default result.
_simulate_agent_day(day_number, agent, ts, beh) ==
    LET r == ChatCompletion(beh, ts)
    IN  IF r.raises \/ ~r.parses
        THEN [day_number |-> day_number, agent_id |-> agent.agent_id,
              role_name |-> agent.role_name,
              completed_tasks |-> [isnull |-> FALSE, items |-> <<>>],
              discussions |-> <<>>, notes |-> FailedNotes]
        ELSE [day_number |-> day_number, agent_id |-> agent.agent_id,
              role_name |-> agent.role_name,
              completed_tasks |-> r.completed_tasks,
              discussions |-> r.discussions, notes |-> r.notes]

LogEntry(d, type, role, id, st, pr) ==
    [day |-> d, event_type |-> type, role_name |-> role, task_id |-> id,
     status |-> st, progress_percentage |-> pr]

\* A variant that writes the task_start entry only for completed results.
RECURSIVE TaskEntriesStartIfCompleted(_, _)
TaskEntriesStartIfCompleted(items, dl) ==
    IF items = <<>> THEN <<>>
    ELSE LET ti == Head(items)
         IN  (IF ti.status = "completed"
              THEN <<LogEntry(dl.day_number, "task_start", dl.role_name,
                              ti.task_id, "in_progress", 0)>>
              ELSE <<>>)
             \o <<LogEntry(dl.day_number,
                           IF ti.status = "completed" THEN "task_complete"
                                                      ELSE "task_progress",
                           dl.role_name, ti.task_id, ti.status,
                           ti.progress_percentage)>>
             \o TaskEntriesStartIfCompleted(Tail(items), dl)

RECURSIVE TaskEntries(_, _)
TaskEntries(items, dl) ==
    IF items = <<>> THEN <<>>
    ELSE LET ti == Head(items)
         IN  <<LogEntry(dl.day_number, "task_start", dl.role_name,
                        ti.task_id, "in_progress", 0),
               LogEntry(dl.day_number,
                        IF ti.status = "completed" THEN "task_complete"
                                                   ELSE "task_progress",
                        dl.role_name, ti.task_id, ti.status,
                        ti.progress_percentage)>>
             \o TaskEntries(Tail(items), dl)

\* The discussion entries carry "participants" on top of the common keys.
DiscussionEntries(ds, dl) ==
    [i \in DOMAIN ds |->
        [day |-> dl.day_number, event_type |-> "discussion",
         role_name |-> dl.role_name, task_id |-> "none", status |-> "none",
         progress_percentage |-> 0,
         participants |-> <<dl.role_name, ds[i].with_role>>]]

\* _convert_to_detailed_logs: raised is TRUE when the loop over
\* completed_tasks raises (None is not iterable; task_info["task_id"] is a
\* KeyError); nothing is returned then.
_convert_to_detailed_logs(dl) ==
    IF dl.completed_tasks.isnull
    THEN [raised |-> TRUE, exc |-> "TypeError", logs |-> <<>>]
    ELSE IF \E i \in DOMAIN dl.completed_tasks.items :
                dl.completed_tasks.items[i].task_id = NoKey
    THEN [raised |-> TRUE, exc |-> "KeyError", logs |-> <<>>]
    ELSE [raised |-> FALSE, exc |-> "none",
          logs |-> TaskEntries(dl.completed_tasks.items, dl)
                   \o DiscussionEntries(dl.discussions, dl)]

\* A variant that copies the result's status into the task state whatever it
\* is.
RECURSIVE UpdateTaskStatusCopied(_, _)
UpdateTaskStatusCopied(items, st) ==
    IF items = <<>> THEN [raised |-> FALSE, status |-> st]
    ELSE LET ct == Head(items)
         IN  IF ct.task_id \notin DOMAIN st
             THEN [raised |-> TRUE, status |-> st]
             ELSE UpdateTaskStatusCopied(
                      Tail(items),
                      [st EXCEPT ![ct.task_id] =
                          [status   |-> ct.status,
                           progress |-> ct.progress_percentage]])

\* The loop "for completed_task in day_log.get('completed_tasks', [])" that
\* updates task_status; task_status[task_id] of an unknown id is a KeyError
\* that leaves the earlier updates in place.
RECURSIVE UpdateTaskStatus(_, _)
UpdateTaskStatus(items, st) ==
    IF items = <<>> THEN [raised |-> FALSE, status |-> st]
    ELSE LET ct == Head(items)
         IN  IF ct.task_id \notin DOMAIN st
             THEN [raised |-> TRUE, status |-> st]
             ELSE UpdateTaskStatus(
                      Tail(items),
                      [st EXCEPT ![ct.task_id] =
                          [status   |-> IF ct.status = "completed"
                                        THEN "completed" ELSE @.status,
                           progress |-> ct.progress_percentage]])

\* ---------------------------------------------------- environment_agent.py
\* EVENT_TYPES: the severity_range of each category, in tenths of a day.
EVENT_TYPES ==
    [technical     |-> [severity_range |-> <<5, 20>>],
     resource      |-> [severity_range |-> <<10, 30>>],
     communication |-> [severity_range |-> <<5, 15>>],
     external      |-> [severity_range |-> <<10, 50>>]]

\* list(self.EVENT_TYPES.keys())
Categories == DOMAIN EVENT_TYPES

\* round(random.uniform(min_delay, max_delay), 1) in tenths of a day; the
\* uniform draw is min + (max - min) * u / UniformSteps for u in
\* 0 .. UniformSteps, rounded to the nearest tenth.
RoundedUniform(min_delay, max_delay, u) ==
    min_delay + (2 * u * (max_delay - min_delay) + UniformSteps)
                    \div (2 * UniformSteps)

\* A variant whose thresholds include the bound.
SeverityInclusive(delay) ==
    IF delay >= 20 THEN "high" ELSE IF delay >= 10 THEN "medium" ELSE "low"

\* "if delay > 2.0 ... elif delay > 1.0 ... else" of _calculate_impact.
Severity(delay) ==
    IF delay > 20 THEN "high" ELSE IF delay > 10 THEN "medium" ELSE "low"

\* A variant that draws the affected tasks with replacement.
SampleWithReplacement(ts, num, perm) ==
    [j \in 1..num |-> ts[((perm[j] - 1) % Len(ts)) + 1]]

\* random.sample(tasks, k=num): num tasks at distinct positions, in the order
\* drawn; perm is the drawn order of the positions 1 .. 3.
Sample(ts, num, perm) ==
    LET idx == FilterSeq(perm, 1..Len(ts))
    IN  [j \in 1..num |-> ts[idx[j]]]

\* min(len(tasks), random.randint(1, 3))
NumAffected(ts, k) == IF Len(ts) < k THEN Len(ts) ELSE k

\* _calculate_impact; dr holds the draws of this call.
_calculate_impact(event_type, ts, dr) ==
    LET range == EVENT_TYPES[event_type].severity_range
        delay == RoundedUniform(range[1], range[2], dr.u)
        num_affected == NumAffected(ts, dr.k)
        affected_tasks == Sample(ts, num_affected, dr.perm)
    IN  [delay |-> delay,
         affected_tasks |-> [j \in DOMAIN affected_tasks |->
                                affected_tasks[j].task_id],
         affected_count |-> num_affected,
         severity |-> Severity(delay)]

\* The module-level generator of Python's random: seeded is whether the
\* caller has called random.seed, seq the values random.random() returns
\* after seeding as far as they have been drawn, pos the number of values
\* returned since the last random.seed.
Unseeded == [seeded |-> FALSE, seq |-> <<>>, pos |-> 0]

\* random.random() may return r: an unseeded generator returns any value, a
\* seeded one the next value of the sequence of its seed.
RandomReturns(r) ==
    IF rng.seeded /\ rng.pos < Len(rng.seq)
    THEN rng.seq[rng.pos + 1] = r
    ELSE TRUE

\* The generator after random.random() has returned r.
RandomAfter(r) ==
    IF rng.seeded
    THEN [seeded |-> TRUE,
          seq |-> IF rng.pos >= Len(rng.seq) THEN Append(rng.seq, r)
                                             ELSE rng.seq,
          pos |-> rng.pos + 1]
    ELSE rng

\* inject_events gets as far as random.random(): the task list is not empty.
DrawsRandom(ts) == ts # <<>>

\* A variant that lets the smallest draw fire at probability 0.
EventDrawnInclusive(r, probability) == r <= probability

\* "if random.random() < probability"
EventDrawn(r, probability) == r < probability

\* A variant that draws an event whether or not tasks are being worked on.
inject_eventsOnIdleDays(d, ts, probability, dr, history) ==
    IF EventDrawn(dr.r, probability)
    THEN <<[day |-> d, event_type |-> "env_event", category |-> dr.category,
            affected_tasks |-> <<>>, delay_days |-> 10, severity |-> "low",
            event_id |-> Len(history) + 1]>>
    ELSE <<>>

\* inject_events with enabled_event_types = None.  dr holds the draws of the
\* call: r is random.random() in tenths (0 .. 9), category the chosen event
\* type, u, k and perm the draws of _calculate_impact; probability is in
\* tenths.
inject_events(d, ts, probability, dr, history) ==
    IF ts = <<>> THEN <<>>
    ELSE IF EventDrawn(dr.r, probability)
    THEN LET impact == _calculate_impact(dr.category, ts, dr)
         IN  <<[day |-> d, event_type |-> "env_event",
                category |-> dr.category,
                affected_tasks |-> impact.affected_tasks,
                delay_days |-> impact.delay,
                severity |-> impact.severity,
                event_id |-> Len(history) + 1]>>
    ELSE <<>>

\* The sum of the delay_days of the events at the positions S of a history.
RECURSIVE TotalDelay(_, _)
TotalDelay(history, S) ==
    IF S = {} THEN 0
    ELSE LET i == CHOOSE k \in S : TRUE
         IN  history[i].delay_days + TotalDelay(history, S \ {i})

\* One value of by_category or by_severity: the count and the total delay of
\* the events at the positions S.
Tally(history, S) ==
    [count |-> Cardinality(S), total_delay |-> TotalDelay(history, S)]

\* get_event_summary, without average_delay; by_category is keyed by the
\* category where the source uses the category's display name.
get_event_summary(history) ==
    [total_events |-> Len(history),
     total_delay |-> TotalDelay(history, DOMAIN history),
     by_category |->
         [c \in {history[i].category : i \in DOMAIN history} |->
             Tally(history, {i \in DOMAIN history : history[i].category = c})],
     by_severity |->
         [v \in {history[i].severity : i \in DOMAIN history} |->
             Tally(history, {i \in DOMAIN history : history[i].severity = v})]]

EnvLogEntries(evs, d) ==
    [i \in DOMAIN evs |-> LogEntry(d, "env_event", "environment", "none", "none", 0)]

\* -------------------------------------------------------- daily_summary.py
\* A variant that counts the entries of every day.
CountLogsOfAllDays(logs, d, type) ==
    Cardinality({i \in DOMAIN logs : logs[i].event_type = type})

CountLogs(logs, d, type) ==
    Cardinality({i \in DOMAIN logs :
                    logs[i].day = d /\ logs[i].event_type = type})

\* The agent ids of a list of day outcomes, each once, in the order of first
\* appearance (the keys of agent_groups).
RECURSIVE AgentGroups(_, _)
AgentGroups(logs, seen) ==
    IF logs = <<>> THEN <<>>
    ELSE IF Head(logs).agent_id \in seen
    THEN AgentGroups(Tail(logs), seen)
    ELSE <<Head(logs).agent_id>>
         \o AgentGroups(Tail(logs), seen \cup {Head(logs).agent_id})

\* tasks_executed of one worker: one record per task result of its outcomes.
RECURSIVE TasksExecuted(_)
TasksExecuted(logs) ==
    IF logs = <<>> THEN <<>>
    ELSE LET items == Head(logs).completed_tasks.items
         IN  [i \in DOMAIN items |->
                 [task_id |-> items[i].task_id, status |-> items[i].status,
                  progress |-> items[i].progress_percentage]]
             \o TasksExecuted(Tail(logs))

\* communications of one worker: one record per discussion of its outcomes.
RECURSIVE Communications(_)
Communications(logs) ==
    IF logs = <<>> THEN <<>>
    ELSE LET ds == Head(logs).discussions
         IN  [i \in DOMAIN ds |-> [with |-> ds[i].with_role,
                                   time |-> ds[i].time]]
             \o Communications(Tail(logs))

\* "efficiency = 85 + (len(tasks_executed) * 2)", capped at 100.
Efficiency(n) == IF 85 + 2 * n > 100 THEN 100 ELSE 85 + 2 * n

_generate_agent_summaries(agent_logs) ==
    LET ids == AgentGroups(agent_logs, {})
    IN  [g \in DOMAIN ids |->
            LET logs == FilterSeq(agent_logs,
                                  {l \in Range(agent_logs) :
                                      l.agent_id = ids[g]})
                tasks_executed == TasksExecuted(logs)
            IN  [agent_id |-> ids[g],
                 role_name |-> logs[1].role_name,
                 tasks_executed |-> tasks_executed,
                 communications |-> Communications(logs),
                 work_hours |-> 2 * Len(tasks_executed),
                 efficiency |-> Efficiency(Len(tasks_executed))]]

\* round((completed / started) * 100, 2) in hundredths of a percent.
OverallProgress(completed, started) ==
    IF started > 0
    THEN (20000 * completed + started) \div (2 * started)
    ELSE 0

\* generate_daily_summary: the counts, the worker summaries and the progress
\* of one day (the formatted communications and environment events are left
\* out).
generate_daily_summary(day_number, agent_logs, logs, evs) ==
    LET day_agent_logs == FilterSeq(agent_logs,
                                    {l \in Range(agent_logs) :
                                        l.day_number = day_number})
        total_tasks_started == CountLogs(logs, day_number, "task_start")
        total_tasks_completed ==
            Cardinality({i \in DOMAIN logs :
                            /\ logs[i].day = day_number
                            /\ logs[i].event_type = "task_complete"
                            /\ logs[i].status = "completed"})
    IN  [day_number |-> day_number,
         total_tasks_started |-> total_tasks_started,
         total_tasks_completed |-> total_tasks_completed,
         agent_summaries |-> _generate_agent_summaries(day_agent_logs),
         overall_progress |-> OverallProgress(total_tasks_completed,
                                              total_tasks_started)]

RECURSIVE AllDailySummaries(_, _, _, _, _)
AllDailySummaries(d, last, agent_logs, logs, evs) ==
    IF d > last THEN <<>>
    ELSE LET s == generate_daily_summary(d, agent_logs, logs, evs)
         IN  (IF s.total_tasks_started > 0 \/ s.total_tasks_completed > 0
              THEN <<s>> ELSE <<>>)
             \o AllDailySummaries(d + 1, last, agent_logs, logs, evs)

\* ------------------------------------------- SimulationEngine: entry points
BatchEntries == {"simulate", "simulate_with_metadata"}
StreamEntries == {"simulate_stream", "simulate_stream_with_metadata",
                  "run_simulation_stream"}
MetadataEntries == {"simulate_with_metadata", "simulate_stream_with_metadata"}
\* run_simulation_stream: the service's generator under the API's
\* event_generator.
ViaService == entry = "run_simulation_stream"

\* simulate_with_metadata / simulate_stream_with_metadata before they call
\* the plain method: the overlay applied to the worker list ...
ResolvedAgents ==
    IF entry \in MetadataEntries
    THEN LET a1 == apply_metadata_to_agents(in_agents, metadata)
         IN  IF metadata.manual_assignments # <<>>
             THEN apply_manual_assignments(a1, metadata)
             ELSE a1
    ELSE in_agents

\* ... and to the task list.
ResolvedTasks ==
    IF entry \in MetadataEntries
    THEN apply_metadata_to_tasks(in_tasks, metadata)
    ELSE in_tasks

\* A variant that sends the env_event unit on every day.
EnvUnitAlways(evs) == TRUE

\* "if day_env_events:" of simulate_stream: the env_event unit is due only when
\* the day has events.
EnvUnitDue(evs) == evs # <<>>

\* The values random.random() takes, in tenths.
RandomDraws == {0, 7}

\* The orders in which random.sample may draw the positions 1 .. 3.
Perms ==
    {p \in [1..3 -> 1..3] : \A i, j \in 1..3 : i # j => p[i] # p[j]}

\* The draws of one inject_events call.
EnvDraws ==
    [r : RandomDraws, category : Categories, u : 0..UniformSteps,
     k : 1..3, perm : Perms]

\* The draws of the calls inside a run: the event, when one is drawn, is a
\* technical one of the longest delay on the first two eligible tasks.
RunDraws ==
    {[r |-> r, category |-> "technical", u |-> UniformSteps, k |-> 2,
      perm |-> <<1, 2, 3>>] : r \in RandomDraws}

Unit(type, d) == [type |-> type, day |-> d]
ErrorUnit == [type |-> "error", day |-> 0]

\* The outcomes of handing one yielded unit down to the consumer: under the
\* service and the API, persisting or serialising the chunk may raise.
DeliverOutcomes == IF ViaService THEN {TRUE, FALSE} ELSE {TRUE}

\* A variant in which the service yields the chunk to the consumer before it
\* handles it.
DeliverBeforeHandling(u, next_pc, ok) ==
    /\ stream' = Append(stream, u)
    /\ IF ViaService
       THEN IF ok
            THEN /\ sse' = Append(sse, u)
                 /\ pc' = next_pc
                 /\ error' = error
            ELSE /\ sse' = Append(Append(sse, u), ErrorUnit)
                 /\ pc' = "api_error"
                 /\ error' = "ServiceError"
       ELSE /\ sse' = sse
            /\ pc' = next_pc
            /\ error' = error

\* One "yield unit" of simulate_stream with what the service's loop body and
\* the API's event_generator do with the chunk before the consumer sees it:
\* the service handles the chunk first and yields it afterwards; an exception
\* on the way ends in event_generator's except clause, which sends one error
\* unit and returns.
Deliver(u, next_pc, ok) ==
    /\ stream' = Append(stream, u)
    /\ IF ViaService
       THEN IF ok
            THEN /\ sse' = Append(sse, u)
                 /\ pc' = next_pc
                 /\ error' = error
            ELSE /\ sse' = Append(sse, ErrorUnit)
                 /\ pc' = "api_error"
                 /\ error' = "ServiceError"
       ELSE /\ sse' = sse
            /\ pc' = next_pc
            /\ error' = error

\* An exception leaves simulate / simulate_stream: the direct caller gets it
\* raised; event_generator turns it into the final error unit.
Raise(exc) ==
    /\ error' = exc
    /\ IF ViaService
       THEN sse' = Append(sse, ErrorUnit) /\ pc' = "api_error"
       ELSE sse' = sse /\ pc' = "raised"

LogEligible(av) ==
    eligible_log' = Append(eligible_log,
                           [day |-> day, eligible |-> TaskIdsOf(av),
                            status |-> task_status])

\* ------------------------------------------------------- simulate (batch)
SimulateStart ==
    /\ pc = "idle"
    /\ entry \in BatchEntries
    /\ tasks' = ResolvedTasks
    /\ agents' = ResolvedAgents
    /\ simulation_logs' = <<>>
    /\ detailed_logs' = <<>>
    /\ env_events' = <<>>
    /\ task_status' = InitialTaskStatus(tasks')
    /\ IF Cyclic(ResolvedTasks)
       THEN /\ Raise("RecursionError")
            /\ UNCHANGED <<sorted_tasks, day>>
       ELSE /\ sorted_tasks' = _topological_sort(tasks')
            /\ day' = 1
            /\ pc' = "b_day"
            /\ UNCHANGED <<sse, error>>
    /\ UNCHANGED <<entry, total_days, enable_env_agent, env_event_probability,
                   in_tasks, in_agents, metadata, llm, available_tasks,
                   agent_i, day_log, day_logs, day_env_events, event_history,
                   daily_summaries, stream, handed, eligible_log>>
    /\ UNCHANGED driver_vars
    /\ UNCHANGED caller_vars

\* for day in range(1, total_days + 1): the head of one iteration, up to the
\* "continue" of a day without available tasks.
SimulateDayBegin ==
    /\ pc = "b_day"
    /\ LET av == _get_available_tasks(sorted_tasks, task_status)
       IN  /\ available_tasks' = av
           /\ LogEligible(av)
           /\ IF av = <<>>
              THEN IF day = total_days
                   THEN pc' = "b_finish" /\ day' = day
                   ELSE pc' = "b_day" /\ day' = day + 1
              ELSE pc' = "b_env" /\ day' = day
    /\ UNCHANGED <<entry, total_days, enable_env_agent, env_event_probability,
                   in_tasks, in_agents, metadata, llm, tasks, agents,
                   task_status, sorted_tasks, agent_i, day_log,
                   simulation_logs, detailed_logs, day_logs, env_events,
                   day_env_events, event_history, daily_summaries, stream,
                   sse, error, handed>>
    /\ UNCHANGED driver_vars
    /\ UNCHANGED caller_vars

SimulateEnv ==
    /\ pc = "b_env"
    /\ \E dr \in RunDraws :
         LET evs == IF enable_env_agent
                    THEN inject_events(day, available_tasks,
                                       env_event_probability, dr, event_history)
                    ELSE <<>>
         IN  /\ RandomReturns(dr.r)
             /\ rng' = IF enable_env_agent /\ DrawsRandom(available_tasks)
                       THEN RandomAfter(dr.r) ELSE rng
             /\ day_env_events' = evs
             /\ env_events' = env_events \o evs
             /\ event_history' = event_history \o evs
             /\ detailed_logs' = detailed_logs \o EnvLogEntries(evs, day)
    /\ agent_i' = 1
    /\ pc' = "b_agents"
    /\ UNCHANGED <<entry, total_days, enable_env_agent, env_event_probability,
                   in_tasks, in_agents, metadata, llm, tasks, agents,
                   task_status, sorted_tasks, day, available_tasks, day_log,
                   simulation_logs, day_logs, daily_summaries, stream, sse,
                   error, handed, eligible_log>>
    /\ UNCHANGED driver_vars
    /\ UNCHANGED <<prior, calls>>

\* One iteration of "for agent in agents" in simulate.
SimulateAgent ==
    /\ pc = "b_agents"
    /\ agent_i <= Len(agents)
    /\ LET agent == agents[agent_i]
           agent_tasks == AgentTasks(available_tasks, agent)
           dl == _simulate_agent_day(day, agent, agent_tasks,
                                     llm[agent.agent_id])
           cv == _convert_to_detailed_logs(dl)
           up == UpdateTaskStatus(dl.completed_tasks.items, task_status)
       IN  IF agent_tasks = <<>>
           THEN /\ agent_i' = agent_i + 1
                /\ UNCHANGED <<pc, day_log, simulation_logs, detailed_logs,
                               task_status, error, sse, handed>>
           ELSE /\ day_log' = dl
                /\ simulation_logs' = Append(simulation_logs, dl)
                /\ handed' = Append(handed, [day |-> day,
                                             agent_id |-> agent.agent_id,
                                             tasks |-> TaskIdsOf(agent_tasks)])
                /\ IF cv.raised
                   THEN /\ Raise(cv.exc)
                        /\ UNCHANGED <<detailed_logs, task_status, agent_i>>
                   ELSE /\ detailed_logs' = detailed_logs \o cv.logs
                        /\ task_status' = up.status
                        /\ IF up.raised
                           THEN Raise("KeyError") /\ agent_i' = agent_i
                           ELSE /\ agent_i' = agent_i + 1
                                /\ UNCHANGED <<pc, error, sse>>
    /\ UNCHANGED <<entry, total_days, enable_env_agent, env_event_probability,
                   in_tasks, in_agents, metadata, llm, tasks, agents,
                   sorted_tasks, day, available_tasks, day_logs, env_events,
                   day_env_events, event_history, daily_summaries, stream,
                   eligible_log>>
    /\ UNCHANGED driver_vars
    /\ UNCHANGED caller_vars

\* The end of one iteration of the day loop of simulate.
SimulateDayEnd ==
    /\ pc = "b_agents"
    /\ agent_i > Len(agents)
    /\ IF day = total_days
       THEN pc' = "b_finish" /\ day' = day
       ELSE pc' = "b_day" /\ day' = day + 1
    /\ UNCHANGED <<entry, total_days, enable_env_agent, env_event_probability,
                   in_tasks, in_agents, metadata, llm, tasks, agents,
                   task_status, sorted_tasks, available_tasks, agent_i,
                   day_log, simulation_logs, detailed_logs, day_logs,
                   env_events, day_env_events, event_history, daily_summaries,
                   stream, sse, error, handed, eligible_log>>
    /\ UNCHANGED driver_vars
    /\ UNCHANGED caller_vars

\* After the day loop: the daily summaries and the return.
SimulateFinish ==
    /\ pc = "b_finish"
    /\ daily_summaries' = AllDailySummaries(1, total_days, simulation_logs,
                                            detailed_logs, env_events)
    /\ pc' = "returned"
    /\ UNCHANGED <<entry, total_days, enable_env_agent, env_event_probability,
                   in_tasks, in_agents, metadata, llm, tasks, agents,
                   task_status, sorted_tasks, day, available_tasks, agent_i,
                   day_log, simulation_logs, detailed_logs, day_logs,
                   env_events, day_env_events, event_history, stream, sse,
                   error, handed, eligible_log>>
    /\ UNCHANGED driver_vars
    /\ UNCHANGED caller_vars

\* The dict simulate returns, read when the call has returned.
SimulateResult ==
    [entry |-> entry,
     logs |-> simulation_logs,
     detailed_logs |-> detailed_logs,
     daily_summaries |-> daily_summaries,
     env_events |-> env_events,
     env_summary |-> IF enable_env_agent
                     THEN get_event_summary(event_history)
                     ELSE "None"]

\* ----------------------------------------------- simulate_stream (generator)
\* The first pull: the service's checks (run_simulation_stream raises when the
\* project has no tasks or no workers), then simulate_stream up to its loop.
StreamStart ==
    /\ pc = "idle"
    /\ entry \in StreamEntries
    /\ IF ViaService /\ (in_tasks = <<>> \/ in_agents = <<>>)
       THEN /\ Raise("ValueError")
            /\ UNCHANGED <<tasks, agents, task_status, sorted_tasks, day,
                           detailed_logs, env_events>>
       ELSE /\ tasks' = ResolvedTasks
            /\ agents' = ResolvedAgents
            /\ task_status' = InitialTaskStatus(tasks')
            /\ detailed_logs' = <<>>
            /\ env_events' = <<>>
            /\ IF Cyclic(ResolvedTasks)
               THEN /\ Raise("RecursionError")
                    /\ UNCHANGED <<sorted_tasks, day>>
               ELSE /\ sorted_tasks' = _topological_sort(tasks')
                    /\ day' = 1
                    /\ pc' = "s_day"
                    /\ UNCHANGED <<sse, error>>
    /\ UNCHANGED <<entry, total_days, enable_env_agent, env_event_probability,
                   in_tasks, in_agents, metadata, llm, available_tasks,
                   agent_i, day_log, simulation_logs, day_logs,
                   day_env_events, event_history, daily_summaries, stream,
                   handed, eligible_log>>
    /\ UNCHANGED driver_vars
    /\ UNCHANGED caller_vars

\* The head of one iteration: the available tasks and the day_start unit.
StreamDayStart(ok) ==
    /\ pc = "s_day"
    /\ LET av == _get_available_tasks(sorted_tasks, task_status)
       IN  /\ available_tasks' = av
           /\ LogEligible(av)
           /\ Deliver([type |-> "day_start", day |-> day,
                       available_tasks |-> TaskIdsOf(av)], "s_env", ok)
    /\ UNCHANGED <<entry, total_days, enable_env_agent, env_event_probability,
                   in_tasks, in_agents, metadata, llm, tasks, agents,
                   task_status, sorted_tasks, day, agent_i, day_log,
                   simulation_logs, detailed_logs, day_logs, env_events,
                   day_env_events, event_history, daily_summaries, handed>>
    /\ UNCHANGED driver_vars
    /\ UNCHANGED caller_vars

\* The environment events of the day: the env_event unit is yielded only when
\* there are events, and the detailed log is extended after the yield.
StreamEnv(ok) ==
    /\ pc = "s_env"
    /\ \E dr \in RunDraws :
         LET evs == IF enable_env_agent
                    THEN inject_events(day, available_tasks,
                                       env_event_probability, dr, event_history)
                    ELSE <<>>
         IN  /\ RandomReturns(dr.r)
             /\ rng' = IF enable_env_agent /\ DrawsRandom(available_tasks)
                       THEN RandomAfter(dr.r) ELSE rng
             /\ day_env_events' = evs
             /\ env_events' = env_events \o evs
             /\ event_history' = event_history \o evs
             /\ IF EnvUnitDue(evs)
                THEN /\ Deliver([type |-> "env_event", day |-> day,
                                 events |-> evs], "s_agents", ok)
                     /\ detailed_logs' =
                            IF ok THEN detailed_logs \o EnvLogEntries(evs, day)
                                  ELSE detailed_logs
                ELSE /\ pc' = "s_agents"
                     /\ UNCHANGED <<stream, sse, error, detailed_logs>>
    /\ day_logs' = <<>>
    /\ agent_i' = 1
    /\ UNCHANGED <<entry, total_days, enable_env_agent, env_event_probability,
                   in_tasks, in_agents, metadata, llm, tasks, agents,
                   task_status, sorted_tasks, day, available_tasks, day_log,
                   simulation_logs, daily_summaries, handed, eligible_log>>
    /\ UNCHANGED driver_vars
    /\ UNCHANGED <<prior, calls>>

\* One iteration of "for agent in agents" in simulate_stream.
StreamAgent ==
    /\ pc = "s_agents"
    /\ agent_i <= Len(agents)
    /\ LET agent == agents[agent_i]
           agent_tasks == AgentTasks(available_tasks, agent)
           dl == _simulate_agent_day(day, agent, agent_tasks,
                                     llm[agent.agent_id])
           cv == _convert_to_detailed_logs(dl)
           up == UpdateTaskStatus(dl.completed_tasks.items, task_status)
       IN  IF agent_tasks = <<>>
           THEN /\ agent_i' = agent_i + 1
                /\ UNCHANGED <<pc, day_log, day_logs, detailed_logs,
                               task_status, error, sse, handed>>
           ELSE /\ day_log' = dl
                /\ handed' = Append(handed, [day |-> day,
                                             agent_id |-> agent.agent_id,
                                             tasks |-> TaskIdsOf(agent_tasks)])
                /\ IF cv.raised
                   THEN /\ Raise(cv.exc)
                        /\ UNCHANGED <<day_logs, detailed_logs, task_status,
                                       agent_i>>
                   ELSE /\ day_logs' = day_logs \o cv.logs
                        /\ detailed_logs' = detailed_logs \o cv.logs
                        /\ task_status' = up.status
                        /\ IF up.raised
                           THEN Raise("KeyError") /\ agent_i' = agent_i
                           ELSE /\ agent_i' = agent_i + 1
                                /\ UNCHANGED <<pc, error, sse>>
    /\ UNCHANGED <<entry, total_days, enable_env_agent, env_event_probability,
                   in_tasks, in_agents, metadata, llm, tasks, agents,
                   sorted_tasks, day, available_tasks, simulation_logs,
                   env_events, day_env_events, event_history, daily_summaries,
                   stream, eligible_log>>
    /\ UNCHANGED driver_vars
    /\ UNCHANGED caller_vars

\* After the worker loop: the agent_work unit.
StreamAgentWork(ok) ==
    /\ pc = "s_agents"
    /\ agent_i > Len(agents)
    /\ Deliver([type |-> "agent_work", day |-> day, logs |-> day_logs],
               "s_summary", ok)
    /\ UNCHANGED <<entry, total_days, enable_env_agent, env_event_probability,
                   in_tasks, in_agents, metadata, llm, tasks, agents,
                   task_status, sorted_tasks, day, available_tasks, agent_i,
                   day_log, simulation_logs, detailed_logs, day_logs,
                   env_events, day_env_events, event_history, daily_summaries,
                   handed, eligible_log>>
    /\ UNCHANGED driver_vars
    /\ UNCHANGED caller_vars

\* The day_summary unit; the generator then goes on to the next day, or leaves
\* the loop.
StreamDaySummary(ok) ==
    /\ pc = "s_summary"
    /\ Deliver([type |-> "day_summary", day |-> day,
                summary |-> generate_daily_summary(day, simulation_logs,
                                                   detailed_logs, env_events)],
               IF day = total_days THEN "s_complete" ELSE "s_day", ok)
    /\ day' = IF day = total_days \/ ~ok THEN day ELSE day + 1
    /\ UNCHANGED <<entry, total_days, enable_env_agent, env_event_probability,
                   in_tasks, in_agents, metadata, llm, tasks, agents,
                   task_status, sorted_tasks, available_tasks, agent_i,
                   day_log, simulation_logs, detailed_logs, day_logs,
                   env_events, day_env_events, event_history, daily_summaries,
                   handed, eligible_log>>
    /\ UNCHANGED driver_vars
    /\ UNCHANGED caller_vars

\* After the day loop: the summaries of all days and the complete unit.
StreamComplete(ok) ==
    /\ pc = "s_complete"
    /\ daily_summaries' = AllDailySummaries(1, total_days, simulation_logs,
                                            detailed_logs, env_events)
    /\ Deliver([type |-> "complete", day |-> 0,
                total_logs |-> Len(detailed_logs),
                detailed_logs |-> detailed_logs,
                daily_summaries |-> daily_summaries',
                env_events |-> env_events,
                env_summary |-> IF enable_env_agent
                                THEN get_event_summary(event_history)
                                ELSE "None"], "s_done", ok)
    /\ UNCHANGED <<entry, total_days, enable_env_agent, env_event_probability,
                   in_tasks, in_agents, metadata, llm, tasks, agents,
                   task_status, sorted_tasks, day, available_tasks, agent_i,
                   day_log, simulation_logs, detailed_logs, day_logs,
                   env_events, day_env_events, event_history, handed,
                   eligible_log>>
    /\ UNCHANGED driver_vars
    /\ UNCHANGED caller_vars

\* The pull after the complete unit: the generator returns.
StreamExhaust ==
    /\ pc = "s_done"
    /\ pc' = "exhausted"
    /\ UNCHANGED <<entry, total_days, enable_env_agent, env_event_probability,
                   in_tasks, in_agents, metadata, llm, tasks, agents,
                   task_status, sorted_tasks, day, available_tasks, agent_i,
                   day_log, simulation_logs, detailed_logs, day_logs,
                   env_events, day_env_events, event_history, daily_summaries,
                   stream, sse, error, handed, eligible_log>>
    /\ UNCHANGED driver_vars
    /\ UNCHANGED caller_vars

Next ==
    \/ SimulateStart
    \/ SimulateDayBegin
    \/ SimulateEnv
    \/ SimulateAgent
    \/ SimulateDayEnd
    \/ SimulateFinish
    \/ StreamStart
    \/ \E ok \in DeliverOutcomes : StreamDayStart(ok)
    \/ \E ok \in DeliverOutcomes : StreamEnv(ok)
    \/ StreamAgent
    \/ \E ok \in DeliverOutcomes : StreamAgentWork(ok)
    \/ \E ok \in DeliverOutcomes : StreamDaySummary(ok)
    \/ \E ok \in DeliverOutcomes : StreamComplete(ok)
    \/ StreamExhaust

\* ------------------------------------------------------------ the inputs
\* The dependency lists a task may carry: none, one id (of the run or not),
\* or two ids of the run.
DepLists ==
    {<<>>} \cup {<<d>> : d \in TaskIds \cup {Ghost}}
           \cup {<<p[1], p[2]>> : p \in {q \in TaskIds \X TaskIds : q[1] # q[2]}}

\* The validation precondition of a run: no task depends on itself, directly
\* or through other tasks (there is an order in which every dependency comes
\* before the task).
Acyclic(g) ==
    \E rank \in [TaskIds -> 1..Cardinality(TaskIds)] :
        \A t \in TaskIds : \A i \in DOMAIN g[t] :
            g[t][i] \in TaskIds => rank[g[t][i]] < rank[t]

Graphs == {g \in [TaskIds -> DepLists] : Acyclic(g)}

MkTasks(g) ==
    [i \in DOMAIN InputOrder |->
        [task_id |-> InputOrder[i], dependencies |-> g[InputOrder[i]]]]

MkAgents(assign) ==
    <<[agent_id |-> "w1", role_name |-> "R1", assigned_tasks |-> assign[1]],
      [agent_id |-> "w2", role_name |-> "R2", assigned_tasks |-> assign[2]]>>

AgentIdSet == {"w1", "w2"}

\* The assigned_tasks of the two workers.
Assignments ==
    { <<<<"A", "B", "C">>, <<>>>>,
      <<<<"A", "B">>, <<"B", "C">>>>,
      <<<<"C">>, <<"A">>>> }

ChainGraph == [t \in TaskIds |->
                 CASE t = "A" -> <<>> [] t = "B" -> <<"A">> [] OTHER -> <<"B">>]
FlatGraph == [t \in TaskIds |-> <<>>]
ForkGraph == [t \in TaskIds |-> IF t = "A" THEN <<>> ELSE <<"A">>]

DriverIdle ==
    /\ d_pc = "off"
    /\ d_status = "none"
    /\ d_day = 0
    /\ d_current_day = 0
    /\ d_daily_results = <<>>
    /\ d_error_message = [cause |-> "", day |-> 0]
    /\ d_total_days = 1
    /\ d_graph_tasks = FALSE
    /\ d_enable_env = FALSE
    /\ d_fail_day = 0
    /\ d_paused_in = 0
    /\ r_status = "off"

\* What a result holds when the caller has made no earlier call.
NoResult == [entry |-> "none", detailed_logs |-> <<>>, env_events |-> <<>>]

\* A caller that has not seeded the generator and makes its first call.
CallerIdle ==
    /\ rng = Unseeded
    /\ prior = NoResult
    /\ calls = 1

\* The state of a fresh SimulationEngine before the call.
EngineFresh ==
    /\ pc = "idle"
    /\ tasks = <<>>
    /\ agents = <<>>
    /\ task_status = <<>>
    /\ sorted_tasks = <<>>
    /\ day = 0
    /\ available_tasks = <<>>
    /\ agent_i = 0
    /\ day_log = [notes |-> "none"]
    /\ simulation_logs = <<>>
    /\ detailed_logs = <<>>
    /\ day_logs = <<>>
    /\ env_events = <<>>
    /\ day_env_events = <<>>
    /\ event_history = <<>>
    /\ daily_summaries = <<>>
    /\ stream = <<>>
    /\ sse = <<>>
    /\ error = "none"
    /\ handed = <<>>
    /\ eligible_log = <<>>

\* Runs over every acyclic dependency graph, with and without an overlay that
\* forces tasks completed, and workers that finish or do not finish their
\* tasks.
Init ==
    /\ entry \in {"simulate", "simulate_stream", "simulate_with_metadata",
                  "simulate_stream_with_metadata"}
    /\ total_days \in 1..MaxDays
    /\ enable_env_agent = TRUE
    /\ env_event_probability = 10
    /\ in_tasks \in {MkTasks(g) : g \in Graphs}
    /\ in_agents \in {MkAgents(a) : a \in Assignments}
    /\ metadata \in IF entry \in MetadataEntries
                    THEN {[EmptyMetadata EXCEPT !.completed_tasks = c] :
                             c \in SUBSET TaskIds}
                    ELSE {EmptyMetadata}
    /\ llm \in {[a \in AgentIdSet |-> "complete"],
                [a \in AgentIdSet |-> IF a = "w1" THEN "complete"
                                                  ELSE "progress"]}
    /\ EngineFresh
    /\ DriverIdle
    /\ CallerIdle

Spec == Init /\ [][Next]_vars

\* Runs of the three plain entry points in which at most one worker's
\* capability misbehaves, with the environment agent off, never firing,
\* firing at random, and always firing; the service is also given projects
\* without tasks or without workers.
FaultyStubs ==
    {f \in [AgentIdSet -> Behaviours] :
        \E a \in AgentIdSet : \A b \in AgentIdSet \ {a} : f[b] = "complete"}

InitService ==
    /\ entry \in {"simulate", "simulate_stream", "run_simulation_stream"}
    /\ total_days \in 1..MaxDays
    /\ enable_env_agent \in BOOLEAN
    /\ env_event_probability \in IF enable_env_agent THEN {0, 5, 10} ELSE {2}
    /\ in_tasks \in {MkTasks(g) : g \in {ChainGraph, FlatGraph, ForkGraph}}
                    \cup (IF entry = "run_simulation_stream" THEN {<<>>}
                                                              ELSE {})
    /\ in_agents \in {MkAgents(a) : a \in Assignments}
                     \cup (IF entry = "run_simulation_stream" /\ in_tasks # <<>>
                           THEN {<<>>} ELSE {})
    /\ metadata = EmptyMetadata
    /\ llm \in FaultyStubs
    /\ EngineFresh
    /\ DriverIdle
    /\ CallerIdle

SpecService == InitService /\ [][Next]_vars

\* ------------------------------------------- twork-core/simulation/engine.py
\* str(e): the text of the exception, which names the cause; day is the day
\* number the text carries, 0 when it carries none.  No raise site under
\* _run_day puts the day number into its exception.
StrOfException(cause) == [cause |-> cause, day |-> 0]

\* The except clause of run.
RunFailed(cause) ==
    /\ d_status' = "failed"
    /\ d_error_message' = StrOfException(cause)
    /\ d_pc' = "returned"

\* The tail of one iteration of run's loop once _run_day has returned.
RunDayRecorded ==
    /\ d_daily_results' = Append(d_daily_results, d_day)
    /\ d_current_day' = d_day
    /\ d_day' = d_day + 1
    /\ d_pc' = "loop"

\* run() up to its loop: the fresh result, then _initialize_agents, which
\* does not suspend and may raise.
Run ==
    /\ d_pc = "idle"
    /\ d_current_day' = 0
    /\ d_daily_results' = <<>>
    /\ \E init_ok \in BOOLEAN :
         IF init_ok
         THEN /\ d_status' = "running"
              /\ d_error_message' = StrOfException("")
              /\ d_day' = 1
              /\ d_pc' = "loop"
         ELSE /\ RunFailed("InitError")
              /\ d_day' = 0
    /\ UNCHANGED <<d_total_days, d_graph_tasks, d_enable_env, d_fail_day,
                   d_paused_in, r_status>>
    /\ UNCHANGED engine_vars
    /\ UNCHANGED caller_vars

\* The head of one iteration of "for day in range(1, total_days + 1)", up to
\* the first point at which _run_day suspends: the PAUSED check and break,
\* the statement after the loop, and _run_day's _get_executable_tasks and
\* _group_tasks (which raises NameError as soon as there is a task to group,
\* its f-string reading the undefined name "day").  With the environment
\* agent on, _run_day awaits the agent; without it, it returns at once.
RunLoop ==
    /\ d_pc = "loop"
    /\ IF d_day > d_total_days \/ d_status = "paused"
       THEN /\ d_status' = "completed"
            /\ d_pc' = "returned"
            /\ UNCHANGED <<d_day, d_current_day, d_daily_results,
                           d_error_message, d_fail_day>>
       ELSE IF d_graph_tasks
       THEN /\ RunFailed("NameError")
            /\ d_fail_day' = d_day
            /\ UNCHANGED <<d_day, d_current_day, d_daily_results>>
       ELSE IF d_enable_env
       THEN /\ d_pc' = "in_day"
            /\ UNCHANGED <<d_status, d_day, d_current_day, d_daily_results,
                           d_error_message, d_fail_day>>
       ELSE /\ RunDayRecorded
            /\ UNCHANGED <<d_status, d_error_message, d_fail_day>>
    /\ UNCHANGED <<d_total_days, d_graph_tasks, d_enable_env, d_paused_in,
                   r_status>>
    /\ UNCHANGED engine_vars
    /\ UNCHANGED caller_vars

\* _run_day resumes from the environment agent's await: the agent's call
\* returns and the day is recorded, or it raises.
RunDayResume ==
    /\ d_pc = "in_day"
    /\ \E ok \in BOOLEAN :
         IF ok
         THEN /\ RunDayRecorded
              /\ UNCHANGED <<d_status, d_error_message, d_fail_day>>
         ELSE /\ RunFailed("LLMError")
              /\ d_fail_day' = d_day
              /\ UNCHANGED <<d_day, d_current_day, d_daily_results>>
    /\ UNCHANGED <<d_total_days, d_graph_tasks, d_enable_env, d_paused_in,
                   r_status>>
    /\ UNCHANGED engine_vars
    /\ UNCHANGED caller_vars

\* Another task of the event loop runs only while run() is not running:
\* before the call, while it is suspended in a day, and after it returned.
CallerRuns == d_pc \in {"idle", "in_day", "returned"}

\* pause(): "if self.result: self.result.status = PAUSED"
pause ==
    /\ CallerRuns
    /\ d_status' = IF d_status # "none" THEN "paused" ELSE d_status
    /\ d_paused_in' = IF d_pc = "in_day" THEN d_day ELSE d_paused_in
    /\ UNCHANGED <<d_pc, d_day, d_current_day, d_daily_results,
                   d_error_message, d_total_days, d_graph_tasks, d_enable_env,
                   d_fail_day, r_status>>
    /\ UNCHANGED engine_vars
    /\ UNCHANGED caller_vars

\* resume(): "if self.result: self.result.status = RUNNING"
resume ==
    /\ CallerRuns
    /\ d_status' = IF d_status # "none" THEN "running" ELSE d_status
    /\ d_paused_in' = 0
    /\ UNCHANGED <<d_pc, d_day, d_current_day, d_daily_results,
                   d_error_message, d_total_days, d_graph_tasks, d_enable_env,
                   d_fail_day, r_status>>
    /\ UNCHANGED engine_vars
    /\ UNCHANGED caller_vars

\* ------------------------------------------ backend/app/routers/simulation.py
\* r_status is simulations[project_id].status of one project; "absent" when
\* the project is not in the dict.
start_simulation ==
    /\ r_status # "off"
    /\ r_status' = "running"
    /\ UNCHANGED <<d_pc, d_status, d_day, d_current_day, d_daily_results,
                   d_error_message, d_total_days, d_graph_tasks, d_enable_env,
                   d_fail_day, d_paused_in>>
    /\ UNCHANGED engine_vars
    /\ UNCHANGED caller_vars

\* 404 when the project is not in the dict.
pause_simulation ==
    /\ r_status \notin {"off", "absent"}
    /\ r_status' = "paused"
    /\ UNCHANGED <<d_pc, d_status, d_day, d_current_day, d_daily_results,
                   d_error_message, d_total_days, d_graph_tasks, d_enable_env,
                   d_fail_day, d_paused_in>>
    /\ UNCHANGED engine_vars
    /\ UNCHANGED caller_vars

resume_simulation ==
    /\ r_status \notin {"off", "absent"}
    /\ r_status' = "running"
    /\ UNCHANGED <<d_pc, d_status, d_day, d_current_day, d_daily_results,
                   d_error_message, d_total_days, d_graph_tasks, d_enable_env,
                   d_fail_day, d_paused_in>>
    /\ UNCHANGED engine_vars
    /\ UNCHANGED caller_vars

EngineUnused ==
    /\ entry = "simulate"
    /\ total_days = 1
    /\ enable_env_agent = FALSE
    /\ env_event_probability = 0
    /\ in_tasks = <<>>
    /\ in_agents = <<>>
    /\ metadata = EmptyMetadata
    /\ llm = [a \in AgentIdSet |-> "complete"]
    /\ EngineFresh

InitDriver ==
    /\ d_pc = "idle"
    /\ d_status = "none"
    /\ d_day = 0
    /\ d_current_day = 0
    /\ d_daily_results = <<>>
    /\ d_error_message = StrOfException("")
    /\ d_total_days \in 1..MaxDays
    /\ d_graph_tasks \in BOOLEAN
    /\ d_enable_env \in BOOLEAN
    /\ d_fail_day = 0
    /\ d_paused_in = 0
    /\ r_status = "absent"
    /\ EngineUnused
    /\ CallerIdle

NextDriver ==
    \/ Run
    \/ RunLoop
    \/ RunDayResume
    \/ pause
    \/ resume
    \/ start_simulation
    \/ pause_simulation
    \/ resume_simulation

SpecDriver == InitDriver /\ [][NextDriver]_vars

\* --------------------------------------------- EnvironmentAgent called alone
\* The task lists handed to inject_events: the tasks of a run that are
\* eligible on some day, in input order.
EnvTaskLists ==
    LET ts == MkTasks(FlatGraph)
    IN  {FilterSeq(ts, {t \in Range(ts) : t.task_id \in S}) :
            S \in SUBSET TaskIds}

\* An event an earlier call left in the history.
PriorEvent ==
    [day |-> 1, event_type |-> "env_event", category |-> "external",
     affected_tasks |-> <<"A">>, delay_days |-> 30, severity |-> "high",
     event_id |-> 1]

\* One inject_events call on an agent whose history is event_history.
EnvInject ==
    /\ pc = "e_ready"
    /\ \E dr \in EnvDraws :
         LET evs == inject_events(day, available_tasks, env_event_probability,
                                  dr, event_history)
         IN  /\ day_env_events' = evs
             /\ event_history' = event_history \o evs
    /\ pc' = "e_called"
    /\ UNCHANGED <<entry, total_days, enable_env_agent, env_event_probability,
                   in_tasks, in_agents, metadata, llm, tasks, agents,
                   task_status, sorted_tasks, day, available_tasks, agent_i,
                   day_log, simulation_logs, detailed_logs, day_logs,
                   env_events, daily_summaries, stream, sse, error, handed,
                   eligible_log>>
    /\ UNCHANGED driver_vars
    /\ UNCHANGED caller_vars

\* reset()
EnvReset ==
    /\ pc = "e_called"
    /\ event_history' = <<>>
    /\ pc' = "e_reset"
    /\ UNCHANGED <<entry, total_days, enable_env_agent, env_event_probability,
                   in_tasks, in_agents, metadata, llm, tasks, agents,
                   task_status, sorted_tasks, day, available_tasks, agent_i,
                   day_log, simulation_logs, detailed_logs, day_logs,
                   env_events, day_env_events, daily_summaries, stream, sse,
                   error, handed, eligible_log>>
    /\ UNCHANGED driver_vars
    /\ UNCHANGED caller_vars

\* An EnvironmentAgent with an empty or a one-event history, about to be
\* called for the first or the last day with some task list and a
\* probability of 0, 0.5 or 1.
InitEnv ==
    /\ pc = "e_ready"
    /\ day \in {1, MaxDays}
    /\ available_tasks \in EnvTaskLists
    /\ env_event_probability \in {0, 5, 10}
    /\ event_history \in {<<>>, <<PriorEvent>>}
    /\ entry = "simulate"
    /\ total_days = MaxDays
    /\ enable_env_agent = TRUE
    /\ in_tasks = MkTasks(FlatGraph)
    /\ in_agents = <<>>
    /\ metadata = EmptyMetadata
    /\ llm = [a \in AgentIdSet |-> "complete"]
    /\ tasks = <<>>
    /\ agents = <<>>
    /\ task_status = <<>>
    /\ sorted_tasks = <<>>
    /\ agent_i = 0
    /\ day_log = [notes |-> "none"]
    /\ simulation_logs = <<>>
    /\ detailed_logs = <<>>
    /\ day_logs = <<>>
    /\ env_events = <<>>
    /\ day_env_events = <<>>
    /\ daily_summaries = <<>>
    /\ stream = <<>>
    /\ sse = <<>>
    /\ error = "none"
    /\ handed = <<>>
    /\ eligible_log = <<>>
    /\ DriverIdle
    /\ CallerIdle

NextEnv ==
    \/ EnvInject
    \/ EnvReset

SpecEnv == InitEnv /\ [][NextEnv]_vars

\* ------------------------------------ _convert_to_detailed_logs called alone
SeqsUpTo(S, n) == UNION {[1..k -> S] : k \in 0..n}

\* The day outcomes of the right shape handed to the normalizer: up to
\* MaxItems task results on two tasks, completed or in progress, and up to
\* MaxItems discussions with two counterparts.
DayOutcomes ==
    {[day_number |-> 1, agent_id |-> "w1", role_name |-> "R1",
      completed_tasks |-> [isnull |-> FALSE, items |-> it],
      discussions |-> ds, notes |-> "ok"] :
        it \in SeqsUpTo({TaskResult(id, "completed", 100) : id \in {"A", "B"}}
                        \cup {TaskResult(id, "in_progress", 50) :
                                 id \in {"A", "B"}}, MaxItems),
        ds \in SeqsUpTo({Discussion("R2"), Discussion("PM")}, MaxItems)}

\* agent_detailed_logs = self._convert_to_detailed_logs(day_log, agent_tasks)
ConvertLogs ==
    /\ pc = "l_ready"
    /\ day_logs' = _convert_to_detailed_logs(day_log).logs
    /\ pc' = "l_done"
    /\ UNCHANGED <<entry, total_days, enable_env_agent, env_event_probability,
                   in_tasks, in_agents, metadata, llm, tasks, agents,
                   task_status, sorted_tasks, day, available_tasks, agent_i,
                   day_log, simulation_logs, detailed_logs, env_events,
                   day_env_events, event_history, daily_summaries, stream,
                   sse, error, handed, eligible_log>>
    /\ UNCHANGED driver_vars
    /\ UNCHANGED caller_vars

\* Everything of an engine but pc and the variables a specification of one
\* method draws.
EngineRest ==
    /\ entry = "simulate"
    /\ total_days = 1
    /\ enable_env_agent = FALSE
    /\ env_event_probability = 0
    /\ in_tasks = <<>>
    /\ in_agents = <<>>
    /\ metadata = EmptyMetadata
    /\ llm = [a \in AgentIdSet |-> "complete"]
    /\ tasks = <<>>
    /\ agents = <<>>
    /\ task_status = <<>>
    /\ sorted_tasks = <<>>
    /\ available_tasks = <<>>
    /\ agent_i = 0
    /\ day_logs = <<>>
    /\ env_events = <<>>
    /\ day_env_events = <<>>
    /\ event_history = <<>>
    /\ daily_summaries = <<>>
    /\ stream = <<>>
    /\ sse = <<>>
    /\ error = "none"
    /\ handed = <<>>
    /\ eligible_log = <<>>

InitLogs ==
    /\ pc = "l_ready"
    /\ day = 1
    /\ day_log \in DayOutcomes
    /\ simulation_logs = <<>>
    /\ detailed_logs = <<>>
    /\ EngineRest
    /\ DriverIdle
    /\ CallerIdle

NextLogs ==
    \/ ConvertLogs

SpecLogs == InitLogs /\ [][NextLogs]_vars

\* ------------------------------------------ generate_daily_summary called alone
\* The log entries given to the summary agent: task_start, task_progress and
\* task_complete entries of two days, a task_complete entry whose status is
\* not completed included.
SummaryEntries ==
    {LogEntry(d, "task_start", "R1", "A", "in_progress", 0) : d \in {1, 2}}
    \cup {LogEntry(d, "task_progress", "R1", "A", "in_progress", 50) :
             d \in {1, 2}}
    \cup {LogEntry(d, "task_complete", "R1", "A", st, 100) :
             d \in {1, 2}, st \in {"completed", "in_progress"}}

\* One generate_daily_summary call.
Summarize ==
    /\ pc = "m_ready"
    /\ daily_summaries' = <<generate_daily_summary(day, simulation_logs,
                                                   detailed_logs, env_events)>>
    /\ pc' = "m_done"
    /\ UNCHANGED <<entry, total_days, enable_env_agent, env_event_probability,
                   in_tasks, in_agents, metadata, llm, tasks, agents,
                   task_status, sorted_tasks, day, available_tasks, agent_i,
                   day_log, simulation_logs, detailed_logs, day_logs,
                   env_events, day_env_events, event_history, stream, sse,
                   error, handed, eligible_log>>
    /\ UNCHANGED driver_vars
    /\ UNCHANGED caller_vars

InitSummary ==
    /\ pc = "m_ready"
    /\ day \in {1, 2}
    /\ day_log = [notes |-> "none"]
    /\ simulation_logs = <<>>
    /\ detailed_logs \in SeqsUpTo(SummaryEntries, MaxLogs)
    /\ EngineRest
    /\ DriverIdle
    /\ CallerIdle

NextSummary ==
    \/ Summarize

SpecSummary == InitSummary /\ [][NextSummary]_vars

\* ------------------------------------------ a caller that calls more than once
\* The locals of a call and the history kept for the properties, as they are
\* before a call.
CallLocalsReset ==
    /\ pc' = "idle"
    /\ tasks' = <<>>
    /\ agents' = <<>>
    /\ task_status' = <<>>
    /\ sorted_tasks' = <<>>
    /\ day' = 0
    /\ available_tasks' = <<>>
    /\ agent_i' = 0
    /\ day_log' = [notes |-> "none"]
    /\ detailed_logs' = <<>>
    /\ day_logs' = <<>>
    /\ env_events' = <<>>
    /\ day_env_events' = <<>>
    /\ daily_summaries' = <<>>
    /\ stream' = <<>>
    /\ sse' = <<>>
    /\ handed' = <<>>
    /\ eligible_log' = <<>>

\* The caller, holding the result of simulate on a fresh engine, seeds the
\* generator as before that call and calls simulate_stream with the same
\* arguments on another fresh engine.
Rerun ==
    /\ pc = "returned"
    /\ entry = "simulate"
    /\ rng.seeded
    /\ calls = 1
    /\ prior = NoResult
    /\ prior' = SimulateResult
    /\ rng' = [rng EXCEPT !.pos = 0]
    /\ entry' = "simulate_stream"
    /\ CallLocalsReset
    /\ simulation_logs' = <<>>
    /\ event_history' = <<>>
    /\ UNCHANGED <<total_days, enable_env_agent, env_event_probability,
                   in_tasks, in_agents, metadata, llm, error, calls>>
    /\ UNCHANGED driver_vars

\* The caller calls simulate or simulate_stream once more on the same
\* engine, with the same arguments: the fields of the engine and of its
\* environment agent stay as the finished call left them.
CallAgain ==
    /\ pc \in {"returned", "exhausted"}
    /\ ~rng.seeded
    /\ calls < MaxCalls
    /\ calls' = calls + 1
    /\ entry' \in {"simulate", "simulate_stream"}
    /\ CallLocalsReset
    /\ UNCHANGED <<total_days, enable_env_agent, env_event_probability,
                   in_tasks, in_agents, metadata, llm, simulation_logs,
                   event_history, error, rng, prior>>
    /\ UNCHANGED driver_vars

\* A generator the caller has seeded, before the first draw.
Seeded == [seeded |-> TRUE, seq |-> <<>>, pos |-> 0]

\* First calls of simulate and simulate_stream on a fresh engine, by a caller
\* that has seeded the generator or has not.
InitRepeat ==
    /\ entry \in {"simulate", "simulate_stream"}
    /\ total_days \in 1..MaxDays
    /\ enable_env_agent \in BOOLEAN
    /\ env_event_probability \in IF enable_env_agent THEN {5, 10} ELSE {2}
    /\ in_tasks \in {MkTasks(g) : g \in {ChainGraph, FlatGraph}}
    /\ in_agents \in {MkAgents(a) : a \in Assignments}
    /\ metadata = EmptyMetadata
    /\ llm \in {[a \in AgentIdSet |-> "complete"],
                [a \in AgentIdSet |-> IF a = "w1" THEN "complete"
                                                  ELSE "progress"]}
    /\ EngineFresh
    /\ DriverIdle
    /\ rng \in {Unseeded, Seeded}
    /\ prior = NoResult
    /\ calls = 1

NextRepeat ==
    \/ Next
    \/ Rerun
    \/ CallAgain

SpecRepeat == InitRepeat /\ [][NextRepeat]_vars

\* ------------------------------------------------ runs on invalid inputs
\* A dependency on an id that no task carries, next to a valid dependency.
GhostGraph == [t \in TaskIds |->
                 CASE t = "A" -> <<Ghost>> [] t = "B" -> <<>> [] OTHER -> <<"B">>]
\* A and B depend on each other.
CycleGraph == [t \in TaskIds |->
                 CASE t = "A" -> <<"B">> [] t = "B" -> <<"A">> [] OTHER -> <<>>]
\* C depends on itself.
SelfGraph == [t \in TaskIds |-> IF t = "C" THEN <<"C">> ELSE <<>>]

\* The inputs the validation precondition excludes: no tasks, no workers, an
\* unknown dependency id, a dependency cycle.
InvalidInputs ==
    {[tasks |-> <<>>, agents |-> MkAgents(a)] : a \in Assignments}
    \cup {[tasks |-> MkTasks(FlatGraph), agents |-> <<>>]}
    \cup {[tasks |-> MkTasks(g), agents |-> MkAgents(a)] :
             g \in {GhostGraph, CycleGraph, SelfGraph}, a \in Assignments}

\* Calls of the two plain entry points and of the service with such inputs.
InitInvalid ==
    /\ entry \in {"simulate", "simulate_stream", "run_simulation_stream"}
    /\ total_days \in 1..MaxDays
    /\ enable_env_agent \in BOOLEAN
    /\ env_event_probability = 10
    /\ \E inp \in InvalidInputs : in_tasks = inp.tasks /\ in_agents = inp.agents
    /\ metadata = EmptyMetadata
    /\ llm = [a \in AgentIdSet |-> "complete"]
    /\ EngineFresh
    /\ DriverIdle
    /\ CallerIdle

SpecInvalid == InitInvalid /\ [][Next]_vars

\* ------------------------------------------------- runs with an overlay
\* The manual_assignments of the overlays: none, one task moved to the other
\* worker, every task assigned anew, two tasks swapped between the workers,
\* and a task given to a worker the run does not have.
ManualAssignments ==
    {<<>>,
     <<<<"A", "w2">>>>,
     <<<<"A", "w1">>, <<"B", "w1">>, <<"C", "w2">>>>,
     <<<<"B", "w2">>, <<"C", "w1">>>>,
     <<<<"C", "w3">>>>}

\* The overlays: each collection empty or not, independently of the others.
Overlays ==
    [removed_agents : {{}, {"w2"}},
     removed_tasks : {{}, {"B"}},
     modified_agents :
         {<<>>, <<[id |-> "w2",
                   changes |-> [assigned_tasks |-> <<"A", "B", "C">>]]>>},
     modified_tasks :
         {<<>>, <<[id |-> "C", changes |-> [dependencies |-> <<>>]]>>},
     manual_assignments : ManualAssignments,
     completed_tasks : {{}, {"A"}}]

\* Calls of simulate_with_metadata and simulate_stream_with_metadata on the
\* chain A <- B <- C with workers that finish what they are given.
InitOverlay ==
    /\ entry \in MetadataEntries
    /\ total_days \in 1..MaxDays
    /\ enable_env_agent = FALSE
    /\ env_event_probability = 2
    /\ in_tasks = MkTasks(ChainGraph)
    /\ in_agents \in {MkAgents(a) : a \in Assignments}
    /\ metadata \in Overlays
    /\ llm = [a \in AgentIdSet |-> "complete"]
    /\ EngineFresh
    /\ DriverIdle
    /\ CallerIdle

SpecOverlay == InitOverlay /\ [][Next]_vars

\* ================================================================ claims
\* What §4.1 of the design calls eligible, stated on a task and a snapshot of
\* the task states.
EligibleIn(t, st) ==
    /\ st[t.task_id].status # "completed"
    /\ \A d \in Range(t.dependencies) :
          d \in DOMAIN st /\ st[d].status = "completed"

\* C1: on every day of a batch or streaming run the eligible set computed at
\* the start of the day holds task T exactly when T is not completed and
\* every id in T's dependencies is the id of a completed task of the run (an
\* id outside the task set counts as not completed); so a task with no
\* dependencies is eligible on every day until it is completed.
C1_DependencyGating ==
    \A k \in DOMAIN eligible_log :
        \A i \in DOMAIN tasks :
            (tasks[i].task_id \in Range(eligible_log[k].eligible))
                <=> EligibleIn(tasks[i], eligible_log[k].status)

\* A day after the first on which a task with a dependency is eligible, in a
\* run that also has a task waiting for an id outside the task set.
C1_Witness ==
    \E k \in DOMAIN eligible_log :
        /\ eligible_log[k].day >= 2
        /\ \E i \in DOMAIN tasks :
              /\ tasks[i].dependencies # <<>>
              /\ tasks[i].task_id \in Range(eligible_log[k].eligible)
        /\ \E j \in DOMAIN tasks :
              /\ Ghost \in Range(tasks[j].dependencies)
              /\ tasks[j].task_id \notin Range(eligible_log[k].eligible)

\* The scenario of C2: the chain A <- B <- C, no forced completion, every
\* task assigned to some worker, and every worker with tasks reports each
\* task it is given as completed.
ChainRun ==
    /\ in_tasks = MkTasks(ChainGraph)
    /\ metadata = EmptyMetadata
    /\ \A t \in TaskIds :
          \E i \in DOMAIN in_agents : InList(t, in_agents[i].assigned_tasks)
    /\ \A i \in DOMAIN in_agents :
          in_agents[i].assigned_tasks # <<>>
              => llm[in_agents[i].agent_id] = "complete"

\* The entry of eligible_log for day d.
EligibleOn(d) ==
    eligible_log[CHOOSE k \in DOMAIN eligible_log : eligible_log[k].day = d]

\* C2: in the chain scenario the eligible set is {A} on day 1, {B} on day 2
\* and {C} on day 3.  In general eligibility is computed once at the start of
\* a day: every task handed to a worker on day d was eligible at the start of
\* day d, all its dependencies completed before the day began, so a task
\* whose last dependency is completed during day d is not worked on before
\* day d+1.
C2_EligibleOncePerDay ==
    /\ \A k \in DOMAIN eligible_log : eligible_log[k].day = k
    /\ ChainRun =>
          \A k \in DOMAIN eligible_log :
              k <= 3 => eligible_log[k].eligible = <<InputOrder[k]>>
    /\ \A h \in DOMAIN handed :
          /\ \E k \in DOMAIN eligible_log : eligible_log[k].day = handed[h].day
          /\ \A t \in Range(handed[h].tasks) :
                /\ t \in Range(EligibleOn(handed[h].day).eligible)
                /\ \A i \in DOMAIN tasks :
                      tasks[i].task_id = t
                          => EligibleIn(tasks[i], EligibleOn(handed[h].day).status)

\* The third day of a chain run, on which C is the eligible task, after two
\* workers shared the chain.
C2_Witness ==
    /\ ChainRun
    /\ Len(eligible_log) >= 3
    /\ eligible_log[3].eligible = <<"C">>
    /\ \E h \in DOMAIN handed : handed[h].day = 3 /\ handed[h].agent_id = "w2"

\* The behaviours of the capability that C3 calls a failure or malformed
\* output.
FailingBehaviours ==
    {"raise", "unparsable", "no_task_id", "unknown_id", "null_list"}

\* C3: a capability that raises or returns malformed output for worker W on
\* day D gives W an outcome with empty completed and discussion lists and the
\* failure marker, and does not abort the run.
C3_FailureIsolation ==
    /\ \A i \in DOMAIN handed :
          (i = Len(handed) /\ llm[handed[i].agent_id] \in FailingBehaviours)
              => /\ ~day_log.completed_tasks.isnull
                 /\ day_log.completed_tasks.items = <<>>
                 /\ day_log.discussions = <<>>
                 /\ day_log.notes = FailedNotes
    /\ error \notin {"KeyError", "TypeError"}

\* The units of the streaming protocol that a finished run of total_days days
\* with the environment events evs consists of.
RECURSIVE ExpectedUnits(_, _, _)
ExpectedUnits(d, last, evs) ==
    IF d > last THEN <<Unit("complete", 0)>>
    ELSE <<Unit("day_start", d)>>
         \o (IF \E i \in DOMAIN evs : evs[i].day = d
             THEN <<Unit("env_event", d)>> ELSE <<>>)
         \o <<Unit("agent_work", d), Unit("day_summary", d)>>
         \o ExpectedUnits(d + 1, last, evs)

TagsOf(units) == [i \in DOMAIN units |-> Unit(units[i].type, units[i].day)]

IsPrefix(a, b) == Len(a) <= Len(b) /\ \A i \in DOMAIN a : a[i] = b[i]

\* C4: the units simulate_stream yields are, day by day in increasing order,
\* day_start, env_event exactly when the day has environment events,
\* agent_work and day_summary, then one complete unit and nothing after it.
C4_StreamProtocol ==
    entry \in StreamEntries =>
        /\ IsPrefix(TagsOf(stream), ExpectedUnits(1, total_days, env_events))
        /\ pc = "exhausted"
              => TagsOf(stream) = ExpectedUnits(1, total_days, env_events)

\* An exhausted stream of at least two days, one with and one without an
\* env_event unit.
C4_Witness ==
    /\ pc = "exhausted"
    /\ total_days >= 2
    /\ \E i \in DOMAIN stream : stream[i].type = "env_event"
    /\ \E d \in 1..total_days :
          \A i \in DOMAIN stream :
              ~(stream[i].type = "env_event" /\ stream[i].day = d)

ErrorUnits == {i \in DOMAIN sse : sse[i].type = "error"}

C10_ForcedCompletion ==
    entry \in MetadataEntries =>
        /\ \A k \in DOMAIN eligible_log :
              Range(eligible_log[k].eligible) \cap metadata.completed_tasks = {}
        /\ \A h \in DOMAIN handed :
              Range(handed[h].tasks) \cap metadata.completed_tasks = {}
        /\ \A i \in DOMAIN tasks :
              (/\ eligible_log # <<>>
               /\ tasks[i].task_id \notin metadata.completed_tasks
               /\ Range(tasks[i].dependencies) \subseteq metadata.completed_tasks)
                  => tasks[i].task_id \in Range(eligible_log[1].eligible)

\* C5: a run of the driver that meets no exception processes the days
\* 1 .. total_days, each once and in order, and ends with current_day =
\* total_days.
C5_AllDaysProcessed ==
    (d_pc = "returned" /\ d_error_message.cause = "")
        => /\ d_current_day = d_total_days
           /\ d_daily_results = [i \in 1..d_total_days |-> i]

\* C6: completed and failed are terminal, paused is entered only from
\* running and left only to running.
C6_StatusMachine ==
    [][/\ d_status \in {"completed", "failed"} => d_status' = d_status
       /\ (d_status' = "paused" /\ d_status # "paused") => d_status = "running"
       /\ (d_status = "paused" /\ d_status' # "paused") => d_status' = "running"
       /\ (r_status' = "paused" /\ r_status # "paused") => r_status = "running"
      ]_vars

\* C7: after pause() during a day, the status does not become completed
\* before resume() is called.
C7_PauseHolds ==
    d_paused_in > 0 => d_status # "completed"

\* C8: an exception during day d leaves the driver failed with the results
\* of days 1 .. d-1 and an error that carries the day number d and the cause.
C8_FailureReport ==
    (d_status = "failed" /\ d_fail_day > 0)
        => /\ d_daily_results = [i \in 1..(d_fail_day - 1) |-> i]
           /\ d_error_message.cause # ""
           /\ d_error_message.day = d_fail_day

\* The task results of the day outcome that the last worker step applied.
AppliedItems ==
    IF "completed_tasks" \in DOMAIN day_log /\ ~day_log.completed_tasks.isnull
    THEN day_log.completed_tasks.items ELSE <<>>

\* The step applied a worker's day outcome to the task states.
AppliesOutcome == handed' # handed /\ pc' \notin {"raised", "api_error"}

\* C11: applying a task result is idempotent and completion is monotone: a
\* result with status completed leaves its task completed, applying the same
\* results a second time changes nothing, a result with status in_progress
\* leaves a pending task pending, and no step of a run changes a completed
\* task to anything else.
C11_IdempotentMonotone ==
    /\ [](pc \notin {"raised", "api_error"} =>
            /\ \A i \in DOMAIN AppliedItems :
                  AppliedItems[i].status = "completed"
                      => task_status[AppliedItems[i].task_id].status = "completed"
            /\ UpdateTaskStatus(AppliedItems, task_status).status = task_status)
    /\ [][/\ \A t \in DOMAIN task_status \cap DOMAIN task_status' :
                task_status[t].status = "completed"
                    => task_status'[t].status = "completed"
          /\ AppliesOutcome =>
                \A t \in DOMAIN task_status :
                    task_status'[t].status =
                        IF \E i \in DOMAIN AppliedItems' :
                              /\ AppliedItems'[i].task_id = t
                              /\ AppliedItems'[i].status = "completed"
                        THEN "completed"
                        ELSE task_status[t].status
         ]_vars

\* A day on which one worker's outcome completed a task while a task of the
\* run that got an in_progress result earlier is still pending.
C11_Witness ==
    /\ pc \notin {"raised", "api_error"}
    /\ \E i \in DOMAIN AppliedItems : AppliedItems[i].status = "in_progress"
    /\ \E t \in DOMAIN task_status : task_status[t].status = "completed"
    /\ \E i \in DOMAIN AppliedItems :
          /\ task_status[AppliedItems[i].task_id].status = "pending"
          /\ task_status[AppliedItems[i].task_id].progress = 50

\* C12: inject_events returns no event and leaves the history as it is when
\* the eligible task list it is given is empty, whatever the probability
\* (1.0 included); so every environment event a run records belongs to a day
\* that had an eligible task.
C12_IdleDaySilence ==
    /\ [](\A i \in DOMAIN env_events :
            \E k \in DOMAIN eligible_log :
                /\ eligible_log[k].day = env_events[i].day
                /\ eligible_log[k].eligible # <<>>)
    /\ [][(pc \in {"b_env", "s_env"} /\ available_tasks = <<>>)
              => /\ day_env_events' = <<>>
                 /\ event_history' = event_history
                 /\ env_events' = env_events
         ]_vars

\* A streaming run with probability 1.0 that has gone through the
\* environment step of a day without eligible tasks, after a day with an
\* event.
C12_Witness ==
    /\ entry \in StreamEntries
    /\ enable_env_agent
    /\ env_event_probability = 10
    /\ event_history # <<>>
    /\ pc = "s_agents"
    /\ available_tasks = <<>>
    /\ day_env_events = <<>>

\* C13: with probability 0.0 no environment event is generated: every
\* inject_events call of a run returns the empty list, nothing enters the
\* history, and the env_events of the batch result is empty.
C13_NoEventAtZero ==
    (enable_env_agent /\ env_event_probability = 0)
        => /\ day_env_events = <<>>
           /\ env_events = <<>>
           /\ event_history = <<>>
           /\ \A i \in DOMAIN stream : stream[i].type # "env_event"

\* The scenario of the claim: a batch run of one day, one worker holding all
\* the (independent) tasks, the environment agent on with probability 0.
C13_Witness ==
    /\ entry = "simulate"
    /\ pc = "returned"
    /\ enable_env_agent
    /\ env_event_probability = 0
    /\ total_days = 1
    /\ in_tasks = MkTasks(FlatGraph)
    /\ \E h \in DOMAIN handed : Len(handed[h].tasks) >= 2

\* The ids of the tasks of a list.
IdsIn(ts) == {ts[i].task_id : i \in DOMAIN ts}

\* C14: an inject_events call returns at most one event; the affected task
\* ids of an event are pairwise distinct, are ids of the eligible tasks
\* passed to the call, and number min(|eligible tasks|, k) for some k in
\* {1, 2, 3}, hence at least 1 and at most 3.
C14_AffectedTasks ==
    /\ Len(day_env_events) <= 1
    /\ \A e \in DOMAIN day_env_events :
          LET aff == day_env_events[e].affected_tasks
              n   == Len(available_tasks)
          IN  /\ \A i, j \in DOMAIN aff : i # j => aff[i] # aff[j]
              /\ Range(aff) \subseteq IdsIn(available_tasks)
              /\ \E k \in {1, 2, 3} :
                    Len(aff) = IF n < k THEN n ELSE k
              /\ Len(aff) >= 1
              /\ Len(aff) <= 3

\* A call with three eligible tasks whose event affects two of them, drawn
\* out of input order.
C14_Witness ==
    /\ pc = "e_called"
    /\ Len(available_tasks) = 3
    /\ Len(day_env_events) = 1
    /\ day_env_events[1].affected_tasks = <<"C", "A">>

\* C15: the delay of an event lies in the severity range of its category
\* (tenths of a day: technical 5..20, resource 10..30, communication 5..15,
\* external 10..50); the severity is high iff delay > 2.0, medium iff
\* 1.0 < delay <= 2.0, low otherwise, so technical and communication events
\* are never high.
C15_DelayAndSeverity ==
    \A e \in DOMAIN day_env_events :
        LET ev == day_env_events[e]
            lo == CASE ev.category = "technical" -> 5
                    [] ev.category = "resource" -> 10
                    [] ev.category = "communication" -> 5
                    [] ev.category = "external" -> 10
            hi == CASE ev.category = "technical" -> 20
                    [] ev.category = "resource" -> 30
                    [] ev.category = "communication" -> 15
                    [] ev.category = "external" -> 50
        IN  /\ lo <= ev.delay_days /\ ev.delay_days <= hi
            /\ ev.severity = "high" <=> ev.delay_days > 20
            /\ ev.severity = "medium" <=>
                   (10 < ev.delay_days /\ ev.delay_days <= 20)
            /\ ev.severity = "low" <=> ev.delay_days <= 10
            /\ ev.category \in {"technical", "communication"}
                   => ev.severity # "high"

\* A technical event of the longest delay, 2.0 days, which is medium.
C15_Witness ==
    /\ pc = "e_called"
    /\ \E e \in DOMAIN day_env_events :
          /\ day_env_events[e].category = "technical"
          /\ day_env_events[e].delay_days = 20
          /\ day_env_events[e].severity = "medium"

\* C16: the log normalizer writes two entries for every task result of a day
\* outcome, a task_start entry and then a task_complete entry when the
\* result is completed and a task_progress entry otherwise, followed by one
\* discussion entry per discussion with participants [worker, counterpart]:
\* 2 x (task results) + (discussions) entries in all.
C16_NormalizerEntries ==
    pc = "l_done" =>
        LET items == day_log.completed_tasks.items
            ds    == day_log.discussions
        IN  /\ Len(day_logs) = 2 * Len(items) + Len(ds)
            /\ \A i \in DOMAIN items :
                  /\ day_logs[2 * i - 1].event_type = "task_start"
                  /\ day_logs[2 * i - 1].task_id = items[i].task_id
                  /\ day_logs[2 * i].event_type =
                        IF items[i].status = "completed"
                        THEN "task_complete" ELSE "task_progress"
                  /\ day_logs[2 * i].task_id = items[i].task_id
                  /\ day_logs[2 * i].status = items[i].status
            /\ \A j \in DOMAIN ds :
                  /\ day_logs[2 * Len(items) + j].event_type = "discussion"
                  /\ day_logs[2 * Len(items) + j].participants
                        = <<day_log.role_name, ds[j].with_role>>

\* A normalized outcome of an in-progress result, a completed result and a
\* discussion.
C16_Witness ==
    /\ pc = "l_done"
    /\ Len(day_log.completed_tasks.items) = 2
    /\ day_log.completed_tasks.items[1].status = "in_progress"
    /\ day_log.completed_tasks.items[2].status = "completed"
    /\ Len(day_log.discussions) = 1
    /\ Len(day_logs) = 5

\* The position of the worker with the given role in the worker list.
AgentPos(role) == CHOOSE k \in DOMAIN agents : agents[k].role_name = role

\* The task list handed on day d to the worker with the given role.
HandedTo(d, role) ==
    LET h == CHOOSE h \in DOMAIN handed :
                 /\ handed[h].day = d
                 /\ handed[h].agent_id = agents[AgentPos(role)].agent_id
    IN  handed[h].tasks

PosIn(x, q) == CHOOSE k \in DOMAIN q : q[k] = x

\* C17: within a day the detailed log holds the environment-event entries
\* first, then the entries of the workers in the order of the worker list,
\* and the task entries of one worker in the order of the task list handed
\* to that worker.
C17_DayOrdering ==
    \A i, j \in DOMAIN detailed_logs :
        (i < j /\ detailed_logs[i].day = detailed_logs[j].day) =>
            LET a == detailed_logs[i]
                b == detailed_logs[j]
            IN  /\ b.event_type = "env_event" => a.event_type = "env_event"
                /\ (a.event_type # "env_event" /\ b.event_type # "env_event")
                       => AgentPos(a.role_name) <= AgentPos(b.role_name)
                /\ (/\ a.event_type \in {"task_start", "task_complete",
                                          "task_progress"}
                    /\ b.event_type \in {"task_start", "task_complete",
                                          "task_progress"}
                    /\ a.role_name = b.role_name
                    /\ InList(a.task_id, HandedTo(a.day, a.role_name))
                    /\ InList(b.task_id, HandedTo(b.day, b.role_name)))
                       => PosIn(a.task_id, HandedTo(a.day, a.role_name))
                            <= PosIn(b.task_id, HandedTo(b.day, b.role_name))

\* The entries of day d with the given event type.
EntriesOf(d, type) ==
    {i \in DOMAIN detailed_logs :
        detailed_logs[i].day = d /\ detailed_logs[i].event_type = type}

\* C18: generate_daily_summary reports as total_tasks_started the number of
\* the day's task_start entries, as total_tasks_completed the number of the
\* day's task_complete entries with status completed, and as
\* overall_progress 0 when nothing was started and 100 x completed / started
\* rounded to two decimals otherwise (in hundredths here); entries of other
\* days do not count, and 2 started with 1 completed give 50.0.
C18_SummaryCounts ==
    pc = "m_done" =>
        LET sm == daily_summaries[1]
            started == Cardinality(EntriesOf(day, "task_start"))
            completed ==
                Cardinality({i \in EntriesOf(day, "task_complete") :
                                detailed_logs[i].status = "completed"})
        IN  /\ sm.day_number = day
            /\ sm.total_tasks_started = started
            /\ sm.total_tasks_completed = completed
            /\ started = 0 => sm.overall_progress = 0
            /\ started > 0 =>
                  /\ 2 * (sm.overall_progress * started - 10000 * completed)
                        <= started
                  /\ 2 * (10000 * completed - sm.overall_progress * started)
                        < started
            /\ (started = 2 /\ completed = 1) => sm.overall_progress = 5000

\* The example of the claim, next to an entry of the other day.
C18_Witness ==
    /\ pc = "m_done"
    /\ Len(detailed_logs) = 4
    /\ \E i \in DOMAIN detailed_logs : detailed_logs[i].day # day
    /\ daily_summaries[1].total_tasks_started = 2
    /\ daily_summaries[1].total_tasks_completed = 1
    /\ daily_summaries[1].overall_progress = 5000

\* The daily summaries a run has produced so far: those of the batch result
\* or of the complete unit, and those of the day_summary units.
ProducedSummaries ==
    Range(daily_summaries)
    \cup {stream[i].summary : i \in {k \in DOMAIN stream :
                                         stream[k].type = "day_summary"}}

\* The task_start entries of the worker with the given role on day d.
StartsOf(d, role) ==
    {i \in EntriesOf(d, "task_start") : detailed_logs[i].role_name = role}

\* C19: every daily summary of a run, in the batch result and in the
\* day_summary and complete units of a streaming run, has one worker summary
\* for each worker that executed at least one task that day, with that
\* worker's task outcomes and discussions of the day, work_hours = 2 x tasks
\* executed and efficiency = min(100, 85 + 2 x tasks executed).
C19_WorkerSummaries ==
    \A sm \in ProducedSummaries :
        \A a \in DOMAIN agents :
            LET n == Cardinality(StartsOf(sm.day_number, agents[a].role_name))
                mine == {g \in DOMAIN sm.agent_summaries :
                            sm.agent_summaries[g].agent_id = agents[a].agent_id}
            IN  n > 0 =>
                  /\ Cardinality(mine) = 1
                  /\ \A g \in mine :
                        LET ws == sm.agent_summaries[g]
                        IN  /\ Len(ws.tasks_executed) = n
                            /\ Len(ws.communications) =
                                  Cardinality(
                                      {i \in EntriesOf(sm.day_number,
                                                       "discussion") :
                                          detailed_logs[i].role_name
                                              = agents[a].role_name})
                            /\ ws.work_hours = 2 * n
                            /\ ws.efficiency =
                                  IF 85 + 2 * n > 100 THEN 100 ELSE 85 + 2 * n

\* C20: the daily_summaries of a finished run hold exactly one summary for
\* every day 1 .. total_days, in increasing day order, days without a started
\* task included.
C20_OneSummaryPerDay ==
    pc \in {"returned", "s_done", "exhausted"} =>
        /\ Len(daily_summaries) = total_days
        /\ \A d \in DOMAIN daily_summaries : daily_summaries[d].day_number = d

\* The position of the task with the given id in a task list.
PosOfTask(id, ts) == CHOOSE k \in DOMAIN ts : ts[k].task_id = id

\* C21: for an acyclic task set the order _topological_sort returns is a
\* permutation of the input tasks in which every task comes after each of its
\* dependencies that is in the task set, and two tasks with no dependency
\* path between them keep their relative input order.
C21_TopologicalOrder ==
    pc \notin {"idle"} =>
        /\ Len(sorted_tasks) = Len(tasks)
        /\ Range(sorted_tasks) = Range(tasks)
        /\ \A i \in DOMAIN sorted_tasks :
              \A d \in Range(sorted_tasks[i].dependencies) :
                  d \in IdsIn(tasks) => PosOfTask(d, sorted_tasks) < i
        /\ \A i, j \in DOMAIN tasks :
              (/\ i < j
               /\ ~DepPath(tasks[i].task_id, tasks[j].task_id, tasks, Len(tasks))
               /\ ~DepPath(tasks[j].task_id, tasks[i].task_id, tasks, Len(tasks)))
                  => PosOfTask(tasks[i].task_id, sorted_tasks)
                        < PosOfTask(tasks[j].task_id, sorted_tasks)

\* The part of C21 the sort meets: a permutation with every dependency before
\* its dependant.
C21_DependenciesFirst ==
    pc \notin {"idle"} =>
        /\ Len(sorted_tasks) = Len(tasks)
        /\ Range(sorted_tasks) = Range(tasks)
        /\ \A i \in DOMAIN sorted_tasks :
              \A d \in Range(sorted_tasks[i].dependencies) :
                  d \in IdsIn(tasks) => PosOfTask(d, sorted_tasks) < i

\* What the validation precondition excludes, stated on the arguments of a
\* call.
InvalidInput ==
    \/ in_tasks = <<>>
    \/ in_agents = <<>>
    \/ \E i \in DOMAIN in_tasks :
          \E d \in Range(in_tasks[i].dependencies) : d \notin IdsIn(in_tasks)
    \/ Cyclic(in_tasks)

\* C22: a run without tasks or without workers, with a dependency id that is
\* not in the task set, or with a dependency cycle is rejected with a
\* precondition error before any day runs: no day is processed, no capability
\* call is made, no log entry and no stream unit is produced, and the sort
\* does not recurse without bound.
C22_PreconditionRejected ==
    (InvalidInput /\ pc # "idle") =>
        /\ pc \in {"raised", "api_error"}
        /\ error = "ValueError"
        /\ eligible_log = <<>>
        /\ handed = <<>>
        /\ detailed_logs = <<>>
        /\ stream = <<>>

\* The part of C22 that holds: the service rejects a project without tasks or
\* without workers before the engine is called.
C22_ServiceRejectsEmpty ==
    (ViaService /\ (in_tasks = <<>> \/ in_agents = <<>>) /\ pc # "idle") =>
        /\ pc = "api_error"
        /\ error = "ValueError"
        /\ eligible_log = <<>>
        /\ handed = <<>>
        /\ detailed_logs = <<>>
        /\ stream = <<>>

\* Runs on invalid inputs that were not rejected: a day was processed for a
\* task set with an unknown dependency id, a call without tasks returned a
\* result, and a cyclic task set ended in the interpreter's RecursionError.
C22_NotRejected ==
    \/ /\ in_tasks = MkTasks(GhostGraph)
       /\ handed # <<>>
       /\ pc \in {"returned", "exhausted"}
    \/ /\ in_tasks = <<>>
       /\ pc = "returned"
    \/ /\ Cyclic(in_tasks)
       /\ error = "RecursionError"

\* C23: an overlay whose six collections are all empty returns task and
\* worker lists equal to the inputs: the same elements in the same order with
\* every field, assigned_tasks included, unchanged.
C23_EmptyOverlayIdentity ==
    (entry \in MetadataEntries /\ metadata = EmptyMetadata)
        => /\ apply_metadata_to_tasks(in_tasks, metadata) = in_tasks
           /\ apply_metadata_to_agents(in_agents, metadata) = in_agents
           /\ apply_manual_assignments(in_agents, metadata) = in_agents
           /\ pc # "idle" => (tasks = in_tasks /\ agents = in_agents)

\* A finished run under the empty overlay in which both workers were given
\* tasks.
C23_Witness ==
    /\ entry \in MetadataEntries
    /\ metadata = EmptyMetadata
    /\ pc \in {"returned", "exhausted"}
    /\ \E h \in DOMAIN handed : handed[h].agent_id = "w2"
    /\ \E i \in DOMAIN agents : agents[i].assigned_tasks = <<"A", "B">>

\* The task ids manual_assignments maps to the worker with the given id.
ManualOf(agent_id) ==
    {metadata.manual_assignments[k][1] :
        k \in {j \in DOMAIN metadata.manual_assignments :
                  metadata.manual_assignments[j][2] = agent_id}}

NoDuplicates(q) == \A i, j \in DOMAIN q : i # j => q[i] # q[j]

\* C24: non-empty manual_assignments replace the automatic assignment: after
\* resolution the assigned_tasks of each remaining worker hold exactly the
\* task ids manual_assignments maps to that worker, each once (none for a
\* worker without a manual assignment), and every task id is in at most one
\* worker's list.
C24_ManualReplaces ==
    (entry \in MetadataEntries /\ metadata.manual_assignments # <<>>
     /\ pc # "idle")
        => /\ \A i \in DOMAIN agents :
                 /\ Range(agents[i].assigned_tasks) = ManualOf(agents[i].agent_id)
                 /\ NoDuplicates(agents[i].assigned_tasks)
           /\ \A i, j \in DOMAIN agents :
                 i # j => Range(agents[i].assigned_tasks)
                              \cap Range(agents[j].assigned_tasks) = {}

\* A run in which the one manual assignment moved A to w2 and w1, which came
\* with tasks and an override of its own, was left with none.
C24_Witness ==
    /\ entry \in MetadataEntries
    /\ metadata.manual_assignments = <<<<"A", "w2">>>>
    /\ metadata.modified_agents # <<>>
    /\ pc \in {"returned", "exhausted"}
    /\ Len(agents) = 2
    /\ in_agents[1].assigned_tasks # <<>>
    /\ agents[1].assigned_tasks = <<>>
    /\ agents[2].assigned_tasks = <<"A">>

\* C25: a manual assignment that names a task or a worker the same overlay
\* removes is dropped and the run proceeds: after resolution no removed worker
\* is in the worker list, no worker's assigned_tasks holds a removed task id,
\* the other manual assignments are applied, and no error ends the run.
C25_ConflictDropped ==
    (entry \in MetadataEntries /\ pc # "idle")
        => /\ \A i \in DOMAIN agents :
                 /\ agents[i].agent_id \notin metadata.removed_agents
                 /\ Range(agents[i].assigned_tasks)
                        \cap metadata.removed_tasks = {}
           /\ \A k \in DOMAIN metadata.manual_assignments :
                 LET task_id  == metadata.manual_assignments[k][1]
                     agent_id == metadata.manual_assignments[k][2]
                 IN  (/\ task_id \notin metadata.removed_tasks
                      /\ agent_id \notin metadata.removed_agents)
                         => \A i \in DOMAIN agents :
                               agents[i].agent_id = agent_id
                                   => InList(task_id, agents[i].assigned_tasks)
           /\ error = "none"

\* The part of C25 that holds: removed workers are gone, the assignments to
\* them are dropped, the others are applied and the run proceeds.
C25_RemovedWorkerDropped ==
    (entry \in MetadataEntries /\ pc # "idle")
        => /\ \A i \in DOMAIN agents :
                 agents[i].agent_id \notin metadata.removed_agents
           /\ \A k \in DOMAIN metadata.manual_assignments :
                 LET task_id  == metadata.manual_assignments[k][1]
                     agent_id == metadata.manual_assignments[k][2]
                 IN  agent_id \notin metadata.removed_agents
                         => \A i \in DOMAIN agents :
                               agents[i].agent_id = agent_id
                                   => InList(task_id, agents[i].assigned_tasks)
           /\ error = "none"

\* C26: once a task is completed no later capability call receives it and no
\* later task_start entry is written for it, within the same day too: when a
\* task is assigned to two workers and the first completes it on day d, the
\* second is not handed it on day d.  (A worker whose capability is
\* "complete" completes every task of the call.)
C26_CompletedNotHandedAgain ==
    /\ \A g, h \in DOMAIN handed :
          (g < h /\ llm[handed[g].agent_id] = "complete")
              => Range(handed[g].tasks) \cap Range(handed[h].tasks) = {}
    /\ \A i, j \in DOMAIN detailed_logs :
          (/\ i < j
           /\ detailed_logs[i].event_type = "task_complete"
           /\ detailed_logs[i].status = "completed"
           /\ detailed_logs[j].event_type = "task_start")
              => detailed_logs[j].task_id # detailed_logs[i].task_id

\* The part of C26 that holds: a task completed on one day is handed to no
\* worker, and gets no entry, on a later day.
C26_NotOnLaterDays ==
    /\ \A g, h \in DOMAIN handed :
          (handed[g].day < handed[h].day
           /\ llm[handed[g].agent_id] = "complete")
              => Range(handed[g].tasks) \cap Range(handed[h].tasks) = {}
    /\ \A i, j \in DOMAIN detailed_logs :
          (/\ detailed_logs[i].day < detailed_logs[j].day
           /\ detailed_logs[i].event_type = "task_complete"
           /\ detailed_logs[i].status = "completed"
           /\ detailed_logs[j].event_type = "task_start")
              => detailed_logs[j].task_id # detailed_logs[i].task_id

\* Task t was handed on day d to the worker with the given role.
WasHanded(t, d, role) ==
    \E h \in DOMAIN handed :
        /\ handed[h].day = d
        /\ \E a \in DOMAIN agents :
              /\ agents[a].agent_id = handed[h].agent_id
              /\ agents[a].role_name = role
        /\ t \in Range(handed[h].tasks)

\* C27: a worker's day outcome changes the state only of tasks handed to that
\* worker on that day: a result that names another task of the run does not
\* complete that task and writes no log entry for it, so every completed task
\* was handed to a worker, hence eligible, on some day.
C27_OnlyHandedTasksChange ==
    /\ \A t \in DOMAIN task_status :
          (task_status[t].status = "completed" \/ task_status[t].progress # 0)
              => \E h \in DOMAIN handed : t \in Range(handed[h].tasks)
    /\ \A i \in DOMAIN detailed_logs :
          (/\ detailed_logs[i].event_type \in
                  {"task_start", "task_complete", "task_progress"}
           /\ detailed_logs[i].task_id \in IdsIn(tasks))
              => WasHanded(detailed_logs[i].task_id, detailed_logs[i].day,
                           detailed_logs[i].role_name)

\* A run of the chain in which w1 was handed A alone and its result named C:
\* C is completed and logged on day 1 although B, its dependency, is pending.
C27_ForeignCompletion ==
    /\ in_tasks = MkTasks(ChainGraph)
    /\ llm["w1"] = "foreign"
    /\ pc = "returned"
    /\ total_days = 1
    /\ handed = <<[day |-> 1, agent_id |-> "w1", tasks |-> <<"A">>]>>
    /\ task_status["C"].status = "completed"
    /\ task_status["B"].status = "pending"
    /\ \E i \in DOMAIN detailed_logs :
          /\ detailed_logs[i].task_id = "C"
          /\ detailed_logs[i].event_type = "task_complete"

\* The number of tasks on the longest dependency chain that ends in the task
\* with the given id, for a chain of at most n tasks.
RECURSIVE ChainLength(_, _, _)
ChainLength(id, ts, n) ==
    IF n = 0 \/ id \notin IdsIn(ts) THEN 0
    ELSE LET deps == ts[PosOfTask(id, ts)].dependencies
             below == {ChainLength(deps[j], ts, n - 1) : j \in DOMAIN deps}
         IN  1 + (IF below = {} THEN 0
                  ELSE CHOOSE m \in below : \A k \in below : k <= m)

LongestChain(ts) ==
    LET all == {ChainLength(ts[i].task_id, ts, Len(ts)) : i \in DOMAIN ts}
    IN  IF all = {} THEN 0 ELSE CHOOSE m \in all : \A k \in all : k <= m

\* The premises of C28 on a run that has started.
ProgressPremises ==
    /\ ~Cyclic(tasks)
    /\ \A i \in DOMAIN tasks :
          Range(tasks[i].dependencies) \subseteq IdsIn(tasks)
    /\ \A i \in DOMAIN tasks :
          \E a \in DOMAIN agents :
              InList(tasks[i].task_id, agents[a].assigned_tasks)
    /\ \A a \in DOMAIN agents : llm[agents[a].agent_id] = "complete"
    /\ total_days >= LongestChain(tasks)

\* C28: when the dependency graph is acyclic with every dependency id in the
\* task set, every task is assigned to a worker, the capability reports every
\* task it is given as completed and total_days is at least the number of
\* tasks on the longest dependency chain, every task is completed when the
\* run ends; and a day that starts with every task completed makes no
\* capability call and adds no log entry and no environment event.
C28_Progress ==
    /\ (pc \in {"returned", "s_done", "exhausted"} /\ ProgressPremises)
          => \A t \in DOMAIN task_status : task_status[t].status = "completed"
    /\ \A k \in DOMAIN eligible_log :
          (\A t \in DOMAIN eligible_log[k].status :
               eligible_log[k].status[t].status = "completed")
              => /\ eligible_log[k].eligible = <<>>
                 /\ \A h \in DOMAIN handed : handed[h].day # eligible_log[k].day
                 /\ \A i \in DOMAIN detailed_logs :
                       detailed_logs[i].day # eligible_log[k].day
                 /\ \A e \in DOMAIN env_events :
                       env_events[e].day # eligible_log[k].day

\* A finished run of three days on A <- {B, C}: two days of work, every task
\* completed, and a third day that starts with nothing left to do.
C28_Witness ==
    /\ pc \in {"returned", "exhausted"}
    /\ ProgressPremises
    /\ in_tasks = MkTasks(ForkGraph)
    /\ total_days = 3
    /\ LongestChain(tasks) = 2
    /\ Len(eligible_log) = 3
    /\ eligible_log[3].eligible = <<>>
    /\ \A t \in DOMAIN task_status : task_status[t].status = "completed"

\* The positions of the complete units in the yielded stream.
CompleteUnits == {i \in DOMAIN stream : stream[i].type = "complete"}

\* The logs of the agent_work units of a stream, concatenated.
RECURSIVE AgentWorkLogs(_)
AgentWorkLogs(units) ==
    IF units = <<>> THEN <<>>
    ELSE (IF Head(units).type = "agent_work" THEN Head(units).logs ELSE <<>>)
         \o AgentWorkLogs(Tail(units))

\* The entries of a log that are not environment entries, in order.
RECURSIVE NonEnvironment(_)
NonEnvironment(logs) ==
    IF logs = <<>> THEN <<>>
    ELSE (IF Head(logs).event_type = "env_event" THEN <<>> ELSE <<Head(logs)>>)
         \o NonEnvironment(Tail(logs))

\* C29: batch and streaming are two views of one run: for the same workers,
\* tasks, total_days, capability outcomes and random draws, each on a fresh
\* engine, the detailed_logs and env_events of the complete unit equal those
\* of the batch result; the logs of the agent_work units, concatenated, are
\* the non-environment entries of detailed_logs in order; and total_logs is
\* the length of detailed_logs.
C29_BatchStreamAgree ==
    \A i \in CompleteUnits :
        /\ stream[i].total_logs = Len(stream[i].detailed_logs)
        /\ AgentWorkLogs(stream) = NonEnvironment(stream[i].detailed_logs)
        /\ prior.entry = "simulate" =>
              /\ stream[i].detailed_logs = prior.detailed_logs
              /\ stream[i].env_events = prior.env_events
              /\ rng.pos = Len(rng.seq)

\* A streaming run replayed after a batch run of three days with probability
\* 0.5 in which one day drew an event and another did not, one worker
\* finishing its tasks while the other does not.
C29_Witness ==
    /\ prior.entry = "simulate"
    /\ pc = "exhausted"
    /\ total_days = 3
    /\ env_event_probability = 5
    /\ Len(prior.env_events) = 1
    /\ rng.seq = <<7, 0, 7>>
    /\ llm["w2"] = "progress"
    /\ \E i \in DOMAIN prior.detailed_logs :
          prior.detailed_logs[i].event_type = "task_progress"
    /\ \E i \in DOMAIN prior.detailed_logs :
          prior.detailed_logs[i].event_type = "discussion"

\* The sum of the counts of a by_category or by_severity breakdown.
RECURSIVE SumCounts(_, _)
SumCounts(f, S) ==
    IF S = {} THEN 0
    ELSE LET k == CHOOSE x \in S : TRUE
         IN  f[k].count + SumCounts(f, S \ {k})

\* An environment summary aggregates exactly the events evs.
SummaryAgrees(sm, evs) ==
    /\ sm.total_events = Len(evs)
    /\ SumCounts(sm.by_category, DOMAIN sm.by_category) = sm.total_events
    /\ SumCounts(sm.by_severity, DOMAIN sm.by_severity) = sm.total_events

\* C30: in every batch result and every streaming complete unit with the
\* environment agent enabled, env_summary.total_events is the number of
\* entries of that result's env_events and the by_category and by_severity
\* counts each sum to total_events, on a second call on the same engine too.
C30_SummaryOfThisRun ==
    enable_env_agent =>
        /\ (pc = "returned" /\ entry \in BatchEntries)
              => SummaryAgrees(SimulateResult.env_summary,
                               SimulateResult.env_events)
        /\ \A i \in CompleteUnits :
              SummaryAgrees(stream[i].env_summary, stream[i].env_events)

\* The part of C30 that holds: the result of the first call on an engine,
\* and the sums of the breakdowns in every result.
C30_FirstCallOnly ==
    enable_env_agent =>
        /\ (pc = "returned" /\ entry \in BatchEntries)
              => /\ calls = 1 => SummaryAgrees(SimulateResult.env_summary,
                                               SimulateResult.env_events)
                 /\ SummaryAgrees(SimulateResult.env_summary, event_history)
        /\ \A i \in CompleteUnits :
              /\ calls = 1 => SummaryAgrees(stream[i].env_summary,
                                            stream[i].env_events)
              /\ SummaryAgrees(stream[i].env_summary, event_history)

====
